---------------------------- MODULE Spec2Model ----------------------------
(***************************************************************************)
(* A model of google/rainbow: the two-colour provenance codec (TwoColor),  *)
(* the corruption summarizer (Summarizer) and the scan that drives it      *)
(* (SprayPaint::ColorIsRight).                                             *)
(*                                                                         *)
(* A buffer is a sequence of bytes; the C++ position k (0-based) is the    *)
(* element k + 1 of the sequence.                                          *)
(***************************************************************************)
EXTENDS Integers, Sequences, FiniteSets, TLC

VARIABLES
    pc,             \* the driver's position: which call comes next
    identity,       \* the owner a buffer is painted or verified for
    buffer_id,      \* buffer id (Paint, Color) or phase (ColorMatch)
    length,         \* the length handed to Paint
    buffer,         \* the bytes under examination
    offset,         \* Identify(buffer + offset, length - offset)
    color,          \* the byte handed to CrackColor
    ret,            \* what the last call of the codec or the scan returned
    kid_,           \* SprayPaint members
    last_painted_by_,
    round_,
    label,          \* ColorIsRight: the 'ident' argument
    scan_k,         \* ColorIsRight: loop index k
    scans,          \* what the calls of ColorIsRight made so far returned and logged
    ok,             \* ColorIsRight: local ok
    reported,       \* ColorIsRight: positions handed to Report, in call order
    finish_calls,   \* ColorIsRight: calls to Finish made so far
    summarizer,     \* the Summarizer of the scan (or of the test): its members
    out,            \* what the last Summarizer call wrote to the log
    n_reports,      \* calls to Report made on this tracker
    n_details,      \* per-event detail lines logged by this tracker
    n_summaries,    \* range summaries logged by this tracker
    sock,           \* the socketpair: bytes written and not yet read
    w_pc,           \* Writer thread: in its loop or returned
    w_p,            \* Writer: local p
    r_pc,           \* Reader thread: in its loop or returned
    r_p,            \* Reader: local p
    failures,       \* Reader: local failures
    received,       \* the bytes read() has handed to Reader, in order
    buffer_,        \* SprayPaint::buffer_: the primary buffer's bytes
    mapping,        \* Kid: local mapping, the mapped buffers' bytes
    kid_k,          \* Kid: the index of the loop it is in
    env             \* what the system has done to Kid so far

codecVars == <<identity, buffer_id, length, buffer, offset, color, ret>>
sprayVars == <<kid_, last_painted_by_, round_, label>>
scanVars == <<scan_k, ok, reported, finish_calls, scans>>
trackerVars == <<summarizer>>
logVars == <<out, n_reports, n_details, n_summaries>>
loopVars == <<sock, w_pc, w_p, r_pc, r_p, failures, received>>
kidVars == <<buffer_, mapping, kid_k, env>>
vars == <<pc, codecVars, sprayVars, scanVars, trackerVars, logVars, loopVars,
          kidVars>>

---------------------------------------------------------------------------
(* Program constants.                                                      *)

kPeriod == 7
kLowPrime == 29
kHighPrime == 31
kLowTag == 128
kHighTag == 64
kSpewLimit == 600
kThreshold == 6
\* Reader's local kSpewLimit.
kReaderSpewLimit == 500

(* Bounds of the model.                                                    *)

\* Paint/Identify round trip: lengths 0..MaxPaintLen, buffer ids 0..MaxBufferId.
MaxPaintLen == 9
MaxBufferId == 7

\* ColorMatch: buffers of 0..MaxMatchLen bytes, phases 0..MaxPhase.
MaxMatchLen == 4
MaxPhase == 7

\* The directly driven Summarizer: FreeBefore freely placed reports before
\* the report that squelches, MaxAfter after it.
FreeBefore == 2
MaxAfter == 2

\* Scans: buffers of 0..MaxScanLen bytes, mapped buffers 0..MaxMapId.
MaxScanLen == 4
MaxMapId == 2

\* Identify on tampered buffers: lengths 0..MaxIdLen, offsets 0..MaxOffset.
MaxIdLen == 10
MaxOffset == 2

\* Scans of stained buffers: StainedLen bytes, of which kPeriod - 1 to
\* MaxStain hold foreign content.
StainedLen == 12
MaxStain == 9

\* Loopback: buffer_size_ up to MaxLoopLen, transfers of up to MaxTransfer
\* bytes (kMaxTransfer scaled down), a socket holding SockCap bytes, at most
\* MaxGarble bytes altered in transit.
MaxLoopLen == 4
MaxTransfer == 2
SockCap == 2
MaxGarble == 1

\* Kid: pages of PageSize bytes (kPageSize scaled down), MaxMappings mapped
\* buffers (kMappings scaled down).
PageSize == 2
MaxMappings == 2

Byte == 0..255
Identities == 0..(kLowPrime * kHighPrime - 1)

Min(a, b) == IF a < b THEN a ELSE b

\* buffer[k] of the source.
At(buf, k) == buf[k + 1]

\* buffer + offset, seen as a buffer of the given length.
Sub(buf, from, len) == SubSeq(buf, from + 1, from + len)

---------------------------------------------------------------------------
(* TwoColor.                                                               *)

Tag(c) == (c \div 32) * 32

Residue(c) == c % 32

\* LowColor that reduces modulo kHighPrime.
LowColorModHigh(id) == kLowTag + (id % kHighPrime)

LowColor(id) == kLowTag + (id % kLowPrime)

HighColor(id) == kHighTag + (id % kHighPrime)

\* ColorSelector with the Low part one position longer.
ColorSelectorLongLow(bid, position) ==
    IF ((bid + position) % kPeriod) <= (kPeriod \div 2) THEN 0 ELSE 1

ColorSelector(bid, position) ==
    IF ((bid + position) % kPeriod) < (kPeriod \div 2) THEN 0 ELSE 1

Color(id, bid, position) ==
    IF ColorSelector(bid, position) = 1 THEN HighColor(id) ELSE LowColor(id)

\* IsValidLowColor with 'residue > kLowPrime' for 'residue >= kLowPrime'.
IsValidLowColorInclusive(c) ==
    IF Tag(c) # kLowTag THEN FALSE
    ELSE IF Residue(c) > kLowPrime THEN FALSE
    ELSE TRUE

IsValidLowColor(c) ==
    IF Tag(c) # kLowTag THEN FALSE
    ELSE IF Residue(c) >= kLowPrime THEN FALSE
    ELSE TRUE

IsValidHighColor(c) ==
    IF Tag(c) # kHighTag THEN FALSE
    ELSE IF Residue(c) >= kHighPrime THEN FALSE
    ELSE TRUE

Paint(id, bid, len) == [j \in 1..len |-> Color(id, bid, j - 1)]

\* The least member of a non-empty set of numbers.
Least(S) == CHOOSE k \in S : \A j \in S : k <= j

\* ColorMatch with its loop started at k = 1.
ColorMatchFromOne(id, phase, buf, len) ==
    LET differ == {k \in 1..(len - 1) : At(buf, k) # Color(id, phase, k)}
    IN  IF differ = {} THEN len ELSE Least(differ)

\* The loop returns the first k in 0..length-1 whose byte differs from the
\* expected colour, else length.
ColorMatch(id, phase, buf, len) ==
    LET differ == {k \in 0..(len - 1) : At(buf, k) # Color(id, phase, k)}
    IN  IF differ = {} THEN len ELSE Least(differ)

\* The first k in 1.. with k >= limit or buffer[k] # c_0.
RECURSIVE FirstTransition(_, _, _)
FirstTransition(buf, limit, k) ==
    IF k < limit /\ At(buf, k) = At(buf, 0)
    THEN FirstTransition(buf, limit, k + 1)
    ELSE k

\* Crt with its loop started at k = 2.
CrtStartsLate(c_low, c_high) ==
    LET hits == {k \in 2..(kLowPrime * kHighPrime - 1) :
                    LowColor(k) = c_low /\ HighColor(k) = c_high}
    IN  IF hits = {} THEN 0 ELSE Least(hits)

\* Crt with its loop ended one candidate early.
CrtStopsEarly(c_low, c_high) ==
    LET hits == {k \in 1..(kLowPrime * kHighPrime - 2) :
                    LowColor(k) = c_low /\ HighColor(k) = c_high}
    IN  IF hits = {} THEN 0 ELSE Least(hits)

\* The loop returns the first k in 1..898 that reproduces both colours, else 0.
Crt(c_low, c_high) ==
    LET hits == {k \in 1..(kLowPrime * kHighPrime - 1) :
                    LowColor(k) = c_low /\ HighColor(k) = c_high}
    IN  IF hits = {} THEN 0 ELSE Least(hits)

nullopt == [has_value |-> FALSE]

\* Candidates with the phase of a Low to High transition left unreduced.
CandidatesUnreducedPhase(buf, len) ==
    IF len < 2 THEN nullopt
    ELSE
      LET c_0 == At(buf, 0)
          k == FirstTransition(buf, Min(len, kPeriod), 1)
      IN  IF k >= Min(len, kPeriod) THEN nullopt
          ELSE
            LET c_1 == At(buf, k)
                low_0_high_1 == IsValidLowColor(c_0) /\ IsValidHighColor(c_1)
                low_1_high_0 == IsValidLowColor(c_1) /\ IsValidHighColor(c_0)
            IN  IF ~(low_0_high_1 \/ low_1_high_0) THEN nullopt
                ELSE IF low_0_high_1
                THEN [has_value |-> TRUE,
                      identity |-> Crt(c_0, c_1),
                      phase |-> kPeriod + (kPeriod \div 2) - k]
                ELSE [has_value |-> TRUE,
                      identity |-> Crt(c_1, c_0),
                      phase |-> kPeriod - k]

\* Candidates with the phase of a High to Low transition off by one.
CandidatesLateTransition(buf, len) ==
    IF len < 2 THEN nullopt
    ELSE
      LET c_0 == At(buf, 0)
          k == FirstTransition(buf, Min(len, kPeriod), 1)
      IN  IF k >= Min(len, kPeriod) THEN nullopt
          ELSE
            LET c_1 == At(buf, k)
                low_0_high_1 == IsValidLowColor(c_0) /\ IsValidHighColor(c_1)
                low_1_high_0 == IsValidLowColor(c_1) /\ IsValidHighColor(c_0)
            IN  IF ~(low_0_high_1 \/ low_1_high_0) THEN nullopt
                ELSE IF low_0_high_1
                THEN [has_value |-> TRUE,
                      identity |-> Crt(c_0, c_1),
                      phase |-> (kPeriod + (kPeriod \div 2) - k) % kPeriod]
                ELSE [has_value |-> TRUE,
                      identity |-> Crt(c_1, c_0),
                      phase |-> kPeriod - k - 1]

Candidates(buf, len) ==
    IF len < 2 THEN nullopt
    ELSE
      LET c_0 == At(buf, 0)
          k == FirstTransition(buf, Min(len, kPeriod), 1)
      IN  IF k >= Min(len, kPeriod) THEN nullopt
          ELSE
            LET c_1 == At(buf, k)
                low_0_high_1 == IsValidLowColor(c_0) /\ IsValidHighColor(c_1)
                low_1_high_0 == IsValidLowColor(c_1) /\ IsValidHighColor(c_0)
            IN  IF ~(low_0_high_1 \/ low_1_high_0) THEN nullopt
                ELSE IF low_0_high_1
                THEN [has_value |-> TRUE,
                      identity |-> Crt(c_0, c_1),
                      phase |-> (kPeriod + (kPeriod \div 2) - k) % kPeriod]
                ELSE [has_value |-> TRUE,
                      identity |-> Crt(c_1, c_0),
                      phase |-> kPeriod - k]

\* Identify that returns a default-constructed Identity where it should
\* return nullopt.
IdentifyEmptyRecord(buf, len) ==
    LET c == Candidates(buf, len)
    IN  IF ~c.has_value
        THEN [has_value |-> TRUE, identity |-> 0, length |-> 0, phase |-> 0]
        ELSE
          LET n == ColorMatch(c.identity, c.phase, buf, len)
          IN  IF n <= kPeriod THEN nullopt
              ELSE [has_value |-> TRUE, identity |-> c.identity,
                    length |-> n, phase |-> c.phase]

\* Identify that takes a buffer without candidate colours for the root's.
IdentifyAssumesRoot(buf, len) ==
    LET c == Candidates(buf, len)
    IN  IF ~c.has_value
        THEN [has_value |-> TRUE, identity |-> 0, length |-> len, phase |-> 0]
        ELSE
          LET n == ColorMatch(c.identity, c.phase, buf, len)
          IN  IF n <= kPeriod THEN nullopt
              ELSE [has_value |-> TRUE, identity |-> c.identity,
                    length |-> n, phase |-> c.phase]

\* Identify with 'length < kPeriod' for 'length <= kPeriod'.
IdentifyAcceptsPeriod(buf, len) ==
    LET c == Candidates(buf, len)
    IN  IF ~c.has_value THEN nullopt
        ELSE
          LET n == ColorMatch(c.identity, c.phase, buf, len)
          IN  IF n < kPeriod THEN nullopt
              ELSE [has_value |-> TRUE, identity |-> c.identity,
                    length |-> n, phase |-> c.phase]

Identify(buf, len) ==
    LET c == Candidates(buf, len)
    IN  IF ~c.has_value THEN nullopt
        ELSE
          LET n == ColorMatch(c.identity, c.phase, buf, len)
          IN  IF n <= kPeriod THEN nullopt
              ELSE [has_value |-> TRUE, identity |-> c.identity,
                    length |-> n, phase |-> c.phase]

\* CrackColor before formatting: what the returned string is made of.
CrackFields(local_identity, c) ==
    IF ~(IsValidLowColor(c) \/ IsValidHighColor(c))
    THEN [garbage |-> TRUE, color |-> c]
    ELSE
      LET low_color == IsValidLowColor(c)
          modulus == IF low_color THEN kLowPrime ELSE kHighPrime
          residue == Residue(c)
          root == residue = 0
          local == c = (IF low_color THEN LowColor(local_identity)
                                     ELSE HighColor(local_identity))
      IN  [garbage |-> FALSE, color |-> c,
           provenance |-> IF root THEN "Root"
                          ELSE IF local THEN "Local" ELSE "Foreign",
           residue |-> residue, modulus |-> modulus]

\* "%d Garbage" and "%d %s [%d mod %d]".
CrackColor(local_identity, c) ==
    LET f == CrackFields(local_identity, c)
    IN  IF f.garbage THEN ToString(f.color) \o " Garbage"
        ELSE ToString(f.color) \o " " \o f.provenance \o " [" \o
             ToString(f.residue) \o " mod " \o ToString(f.modulus) \o "]"

---------------------------------------------------------------------------
(* SprayPaint helpers.                                                     *)

\* "Round: %d Kid: %d Buffer: %d %s"
Ident(phase, bid) ==
    "Round: " \o ToString(round_) \o " Kid: " \o ToString(kid_) \o
    " Buffer: " \o ToString(bid) \o " " \o phase

\* "BadColor: %s Position: %d"; SprayPaint::CrackColor cracks against kid_.
ErrorMessage(c, position) ==
    "BadColor: " \o CrackColor(kid_, c) \o " Position: " \o ToString(position)


---------------------------------------------------------------------------
(* Summarizer.  The members are the fields of a record t.  A size_t value  *)
(* of 2^63 or more is written as the negative integer congruent to it      *)
(* modulo 2^64, so range_end_ - range_start_ + 1 is the plain difference    *)
(* and a negative length is a wrapped one.  buffer_ is the buffer handed   *)
(* to the constructor, spray_paint_ the SprayPaint whose members are kid_,  *)
(* round_, ...                                                              *)

ZeroHistogram == [b \in Byte |-> 0]

\* range_start_ and range_end_ have no initializer: they hold whatever the
\* memory held.
Indeterminate == {0, 255}

\* Summarizer::Summarizer: the objects it may construct.
\* A constructor that leaves the counts of the tracker before it in place.
ConstructKept(id, buf) ==
    {[summarizer EXCEPT !.ident_ = id, !.buffer_ = buf]}

Construct(id, buf) ==
    {[ident_ |-> id, buffer_ |-> buf, active_ |-> FALSE, range_count_ |-> 0,
      range_start_ |-> s, range_end_ |-> e, range_fails_ |-> 0,
      total_fails_ |-> 0, histogram_ |-> ZeroHistogram] :
        s \in Indeterminate, e \in Indeterminate}

\* Clear that resets the lifetime counter with the per-range one.
ClearAll(t) ==
    [t EXCEPT !.histogram_ = ZeroHistogram, !.range_fails_ = 0,
              !.total_fails_ = 0]

\* Clear that leaves the histogram as it is.
ClearFailsOnly(t) == [t EXCEPT !.range_fails_ = 0]

Clear(t) == [t EXCEPT !.histogram_ = ZeroHistogram, !.range_fails_ = 0]

\* IsSquelched with '>' for '>='.
IsSquelchedLate(t) == t.total_fails_ > kSpewLimit

\* IsSquelched one report early.
IsSquelchedEarly(t) == t.total_fails_ >= kSpewLimit - 1

IsSquelched(t) == t.total_fails_ >= kSpewLimit

RangeLength(t) == t.range_end_ - t.range_start_ + 1

\* Memory after the end of the buffer, as far as a read overrunning it may
\* see before it reaches an unmapped page.
BeyondBuffer == {[j \in 1..kPeriod |-> b] : b \in {0, 255}}

\* The read ran into an unmapped page: the process is killed.
Fault == [has_value |-> FALSE, fault |-> TRUE]

Faulted(r) == "fault" \in DOMAIN r

\* TwoColor::Identify(buffer_ + range_start_, range_length).  A range that
\* lies inside the buffer has one result.  A wrapped length makes Identify
\* read on past the end of the buffer: it then sees some memory content, or
\* the read faults.
IdentifyRange(t) ==
    IF RangeLength(t) >= 0 /\ t.range_start_ + RangeLength(t) <= Len(t.buffer_)
    THEN {Identify(Sub(t.buffer_, t.range_start_, RangeLength(t)), RangeLength(t))}
    ELSE
      LET inside == Sub(t.buffer_, t.range_start_, Len(t.buffer_) - t.range_start_)
          seen(tail) ==
              LET v == inside \o tail
                  r == Identify(v, Len(v))
              IN  IF r.has_value /\ r.length = Len(v) THEN Fault ELSE r
      IN  {seen(tail) : tail \in BeyondBuffer} \cup {Fault}

\* The histogram lines: "  %s: %9d" for every non-zero bucket.
Colors(t) ==
    [b \in {x \in Byte : t.histogram_[x] # 0} |->
        [text |-> CrackColor(kid_, b), count |-> t.histogram_[b]]]

\* The last line of a summary.
IdentityLine(t, r) ==
    IF r.has_value
    THEN IF r.identity # kid_ /\ r.identity # 0 /\ r.length > kThreshold
         THEN [kind |-> "indiscretion", ident |-> t.ident_,
               identity |-> r.identity, length |-> r.length]
         ELSE [kind |-> "identity", identity |-> r.identity,
               length |-> r.length, phase |-> r.phase]
    ELSE [kind |-> "indeterminate"]

\* The values Summary() may return: the empty string when the tracker is not
\* active, else the lines of the summary.  A fault ends the process inside
\* the call.
Summary(t) ==
    IF ~t.active_ THEN {[fault |-> FALSE, text |-> ""]}
    ELSE
      {IF Faulted(r) THEN [fault |-> TRUE, text |-> ""]
       ELSE [fault |-> FALSE,
             text |-> [range |-> t.range_count_,
                       start |-> t.range_start_,
                       end |-> t.range_end_,
                       length |-> RangeLength(t),
                       fails |-> t.range_fails_,
                       squelched |-> IF IsSquelched(t) THEN "Squelched" ELSE "",
                       colors |-> Colors(t),
                       identity |-> IdentityLine(t, r)]] : r \in IdentifyRange(t)}

\* SAFELOG(ERROR) << ident_ << " " << text; kind tells a range summary from
\* a per-event detail line.
LogLine(t, kind, text) == [ident |-> t.ident_, kind |-> kind, text |-> text]

\* Report that starts a new range only when the position skips ahead.
ReportSkipsOnly(t, position, c, error) ==
    LET t1 == [t EXCEPT !.total_fails_ = @ + 1]
        squelched == IsSquelched(t1)
        new_range == ~squelched /\ t1.active_ /\ position > t1.range_end_ + 1
        t2 == IF new_range
              THEN [Clear([t1 EXCEPT !.range_count_ = @ + 1])
                        EXCEPT !.range_start_ = position]
              ELSE t1
        t3 == IF ~t2.active_
              THEN [t2 EXCEPT !.range_count_ = 1, !.range_start_ = position,
                              !.active_ = TRUE]
              ELSE t2
        t4 == [t3 EXCEPT !.range_end_ = position, !.range_fails_ = @ + 1,
                         !.histogram_[c] = @ + 1]
        detail == IF squelched THEN <<>> ELSE <<LogLine(t, "detail", error)>>
    IN  IF new_range
        THEN {IF s.fault
              THEN [crashed |-> TRUE, t |-> t1, lines |-> <<>>]
              ELSE [crashed |-> FALSE, t |-> t4,
                    lines |-> <<LogLine(t, "summary", s.text)>> \o detail] :
                s \in Summary(t1)}
        ELSE {[crashed |-> FALSE, t |-> t4, lines |-> detail]}

\* Summarizer::Report(position, color, error): the outcomes of the call, each
\* with the tracker after it, the lines it logged and whether it ended the
\* process.
Report(t, position, c, error) ==
    LET t1 == [t EXCEPT !.total_fails_ = @ + 1]
        squelched == IsSquelched(t1)
        new_range == ~squelched /\ t1.active_ /\ position # t1.range_end_ + 1
        t2 == IF new_range
              THEN [Clear([t1 EXCEPT !.range_count_ = @ + 1])
                        EXCEPT !.range_start_ = position]
              ELSE t1
        t3 == IF ~t2.active_
              THEN [t2 EXCEPT !.range_count_ = 1, !.range_start_ = position,
                              !.active_ = TRUE]
              ELSE t2
        t4 == [t3 EXCEPT !.range_end_ = position, !.range_fails_ = @ + 1,
                         !.histogram_[c] = @ + 1]
        detail == IF squelched THEN <<>> ELSE <<LogLine(t, "detail", error)>>
    IN  IF new_range
        THEN {IF s.fault
              THEN [crashed |-> TRUE, t |-> t1, lines |-> <<>>]
              ELSE [crashed |-> FALSE, t |-> t4,
                    lines |-> <<LogLine(t, "summary", s.text)>> \o detail] :
                s \in Summary(t1)}
        ELSE {[crashed |-> FALSE, t |-> t4, lines |-> detail]}

\* Finish that closes the range it has logged.
FinishCloses(t) ==
    IF t.active_
    THEN {IF s.fault
          THEN [crashed |-> TRUE, t |-> t, lines |-> <<>>]
          ELSE [crashed |-> FALSE, t |-> Clear(t),
                lines |-> <<LogLine(t, "summary", s.text)>>] : s \in Summary(t)}
    ELSE {[crashed |-> FALSE, t |-> t, lines |-> <<>>]}

\* Summarizer::Finish(): const, it only logs.
Finish(t) ==
    IF t.active_
    THEN {IF s.fault
          THEN [crashed |-> TRUE, t |-> t, lines |-> <<>>]
          ELSE [crashed |-> FALSE, t |-> t,
                lines |-> <<LogLine(t, "summary", s.text)>>] : s \in Summary(t)}
    ELSE {[crashed |-> FALSE, t |-> t, lines |-> <<>>]}

\* The summaries and the detail lines among logged lines.
SummariesIn(lines) ==
    {lines[j].text : j \in {i \in DOMAIN lines : lines[i].kind = "summary"}}

DetailsIn(lines) ==
    {lines[j].text : j \in {i \in DOMAIN lines : lines[i].kind = "detail"}}

CountKind(lines, kind) == Cardinality({i \in DOMAIN lines : lines[i].kind = kind})

\* A Summarizer call made by a driver: the tracker, the log and the counts of
\* what was logged after outcome o.
Logged(o) ==
    /\ summarizer' = o.t
    /\ out' = o.lines
    /\ n_details' = n_details + CountKind(o.lines, "detail")
    /\ n_summaries' = n_summaries + CountKind(o.lines, "summary")

---------------------------------------------------------------------------
(* Values of the variables a specification does not use.                   *)

NoSummarizer ==
    [ident_ |-> "", buffer_ |-> <<>>, active_ |-> FALSE, range_count_ |-> 0, range_start_ |-> 0,
     range_end_ |-> 0, range_fails_ |-> 0, total_fails_ |-> 0,
     histogram_ |-> ZeroHistogram]

NoTracker ==
    /\ summarizer = NoSummarizer
    /\ out = <<>>
    /\ n_reports = 0
    /\ n_details = 0
    /\ n_summaries = 0

NoSpray ==
    /\ kid_ = 0
    /\ last_painted_by_ = 0
    /\ round_ = 0
    /\ label = ""

NoScan ==
    /\ scan_k = 0
    /\ ok = TRUE
    /\ reported = <<>>
    /\ finish_calls = 0
    /\ scans = <<>>

NoLoop ==
    /\ sock = <<>>
    /\ w_pc = "idle"
    /\ w_p = 0
    /\ r_pc = "idle"
    /\ r_p = 0
    /\ failures = 0
    /\ received = <<>>

NoKid ==
    /\ buffer_ = <<>>
    /\ mapping = <<>>
    /\ kid_k = 0
    /\ env = {}

NoCodec ==
    /\ identity = 0
    /\ length = 0
    /\ offset = 0
    /\ color = 0

---------------------------------------------------------------------------
(* Paint followed by Identify, for every identity (TEST(TwoColor, Match)). *)

RoundTripInit ==
    /\ pc = "paint"
    /\ identity \in Identities
    /\ buffer_id \in 0..MaxBufferId
    /\ length \in 0..MaxPaintLen
    /\ buffer = <<>>
    /\ offset = 0
    /\ color = 0
    /\ ret = nullopt
    /\ NoSpray
    /\ NoScan
    /\ NoLoop
    /\ NoKid
    /\ NoTracker

DoPaint ==
    /\ pc = "paint"
    /\ buffer' = Paint(identity, buffer_id, length)
    /\ pc' = "identify"
    /\ UNCHANGED <<identity, buffer_id, length, offset, color, ret>>
    /\ UNCHANGED <<sprayVars, kidVars, loopVars, scanVars, trackerVars, logVars>>

DoIdentify ==
    /\ pc = "identify"
    /\ ret' = Identify(buffer, Len(buffer))
    /\ pc' = "identified"
    /\ UNCHANGED <<identity, buffer_id, length, buffer, offset, color>>
    /\ UNCHANGED <<sprayVars, kidVars, loopVars, scanVars, trackerVars, logVars>>

RoundTripNext == DoPaint \/ DoIdentify

SpecRoundTrip == RoundTripInit /\ [][RoundTripNext]_vars

(* C1: Identify on the buffer that Paint(i, b, buffer, n) produced, with   *)
(* i in [0, 899) and n > 7, returns identity i, phase b mod 7, length n.   *)
RoundTrip ==
    (pc = "identified" /\ length > kPeriod) =>
        /\ ret.has_value
        /\ ret.identity = identity
        /\ ret.phase = buffer_id % kPeriod
        /\ ret.length = length

RoundTripWitness ==
    /\ pc = "identified"
    /\ length > kPeriod
    /\ identity = 898
    /\ buffer_id = 5
    /\ ret.has_value

---------------------------------------------------------------------------
(* SprayPaint::ColorIsRight(buffer_id, buffer, buffer_size, ident): one     *)
(* scan of one buffer.                                                      *)

\* The scans the program makes: the members at the call and its arguments.
\* The constructor and Guts scan papa's buffer; Kid scans it with kid_ set
\* and papa's colours still on it, then in its own colours, then scans each
\* mapped buffer under its id.
ScanCalls ==
    {[kid |-> 0, last |-> 0, ident |-> "Ctor", buffer_id |-> 0],
     [kid |-> 3, last |-> 0, ident |-> "CheckPapa", buffer_id |-> 0],
     [kid |-> 3, last |-> 3, ident |-> "FirstCheckMe", buffer_id |-> 0]}
    \cup {[kid |-> 3, last |-> 3, ident |-> "MapCheck", buffer_id |-> b] :
             b \in 0..MaxMapId}

\* What a scanned buffer may hold: the colours of owners 0 and 3 and a
\* garbage byte.
ScanBytes == {LowColor(0), HighColor(0), LowColor(3), HighColor(3), 11}

ScanBuffers == UNION {[1..n -> ScanBytes] : n \in 0..MaxScanLen}

Init ==
    /\ pc = "call"
    /\ \E call \in ScanCalls :
         /\ kid_ = call.kid
         /\ last_painted_by_ = call.last
         /\ label = call.ident
         /\ buffer_id = call.buffer_id
    /\ round_ = 0
    /\ buffer \in ScanBuffers
    /\ ret = TRUE
    /\ NoCodec
    /\ NoScan
    /\ NoLoop
    /\ NoKid
    /\ NoTracker

\* bool ok = true; Summarizer summarizer(Ident(ident, buffer_id), this, buffer);
ScanBegin ==
    /\ pc = "call"
    /\ summarizer' \in Construct(Ident(label, buffer_id), buffer)
    /\ out' = <<>>
    /\ n_reports' = 0
    /\ n_details' = 0
    /\ n_summaries' = 0
    /\ scan_k' = 0
    /\ ok' = TRUE
    /\ reported' = <<>>
    /\ finish_calls' = 0
    /\ pc' = "loop"
    /\ UNCHANGED <<codecVars, sprayVars, kidVars, loopVars, scans>>

\* The loop left at the first mismatch.
ScanLoopStopsAtFailure == scan_k < Len(buffer) /\ ok

\* k < buffer_size
ScanLoopRuns == scan_k < Len(buffer)

\* The expected colour taken from kid_ instead of last_painted_by_.
ExpectedOfKid(k) == Color(kid_, buffer_id, k)

\* TwoColor::Color(last_painted_by_, buffer_id, k)
Expected(k) == Color(last_painted_by_, buffer_id, k)

\* One pass of the loop body.
ScanStep ==
    /\ pc = "loop"
    /\ ScanLoopRuns
    /\ LET c == At(buffer, scan_k)
       IN  IF c # Expected(scan_k)
           THEN \E o \in Report(summarizer, scan_k, c, ErrorMessage(c, scan_k)) :
                  /\ Logged(o)
                  /\ n_reports' = n_reports + 1
                  /\ reported' = Append(reported, scan_k)
                  /\ ok' = FALSE
                  /\ pc' = IF o.crashed THEN "crashed" ELSE "loop"
           ELSE /\ pc' = "loop"
                /\ UNCHANGED <<ok, reported, trackerVars, logVars>>
    /\ scan_k' = scan_k + 1
    /\ UNCHANGED <<codecVars, sprayVars, kidVars, loopVars, finish_calls, scans>>

\* summarizer.Finish(); return ok;
ScanEnd ==
    /\ pc = "loop"
    /\ ~ScanLoopRuns
    /\ \E o \in Finish(summarizer) :
         /\ Logged(o)
         /\ pc' = IF o.crashed THEN "crashed" ELSE "done"
    /\ finish_calls' = finish_calls + 1
    /\ ret' = ok
    /\ n_reports' = n_reports
    /\ UNCHANGED <<identity, buffer_id, length, buffer, offset, color>>
    /\ UNCHANGED <<sprayVars, kidVars, loopVars, scan_k, ok, reported, scans>>

Next == ScanBegin \/ ScanStep \/ ScanEnd

Spec == Init /\ [][Next]_vars

\* The positions below k whose byte is not the expected colour, ascending.
RECURSIVE Mismatches(_)
Mismatches(k) ==
    IF k = 0 THEN <<>>
    ELSE IF At(buffer, k - 1) # Color(last_painted_by_, buffer_id, k - 1)
         THEN Append(Mismatches(k - 1), k - 1)
         ELSE Mismatches(k - 1)

\* The positions at which the buffer differs from what Paint writes for
\* (last_painted_by_, buffer_id).
Tampered ==
    {p \in 0..(Len(buffer) - 1) :
        At(buffer, p) # At(Paint(last_painted_by_, buffer_id, Len(buffer)), p)}

(* C2: if exactly one byte, at position p, of a correctly painted buffer   *)
(* was changed, the scan returns false, calls Report once, for p, and the   *)
(* tracker ends with total_fails = 1 and one range with start = end = p,    *)
(* which Finish summarises.                                                 *)
TamperLocalization ==
    (pc = "done" /\ Cardinality(Tampered) = 1) =>
        \A p \in Tampered :
            /\ ret = FALSE
            /\ reported = <<p>>
            /\ n_reports = 1
            /\ summarizer.total_fails_ = 1
            /\ summarizer.active_
            /\ summarizer.range_count_ = 1
            /\ summarizer.range_start_ = p
            /\ summarizer.range_end_ = p
            /\ n_summaries = 1
            /\ \A s \in SummariesIn(out) :
                  s.range = 1 /\ s.start = p /\ s.end = p /\ s.fails = 1

TamperLocalizationWitness ==
    /\ pc = "done"
    /\ Len(buffer) = MaxScanLen
    /\ Tampered = {1}
    /\ label = "CheckPapa"
    /\ ret = FALSE

(* C3: the scan visits the positions 0..n-1 in increasing order without     *)
(* early exit, calls Report once for each position whose byte differs from  *)
(* Color(last_painted_by_, buffer_id, k) and for no other, calls Finish     *)
(* once, after the last position, and returns true iff it reported nothing. *)
ScanIsComplete ==
    pc \in {"loop", "done"} =>
        /\ scan_k \in 0..Len(buffer)
        /\ reported = Mismatches(scan_k)
        /\ n_reports = Len(reported)
        /\ ok = (reported = <<>>)
        /\ finish_calls = (IF pc = "done" THEN 1 ELSE 0)
        /\ pc = "done" => (scan_k = Len(buffer) /\ ret = (reported = <<>>))

ScanIsCompleteWitness ==
    /\ pc = "done"
    /\ Len(reported) = 2
    /\ Len(buffer) = MaxScanLen
    /\ reported[1] = 0
    /\ ret = FALSE

---------------------------------------------------------------------------
(* TwoColor::ColorMatch on arbitrary buffers.                               *)

\* Owners 0 and 3, and 32, which shares its Low colour with 3.
MatchIdentities == {0, 3, 32}

MatchBytes == {LowColor(0), HighColor(0), LowColor(3), HighColor(3), 11}

MatchBuffers == UNION {[1..n -> MatchBytes] : n \in 0..MaxMatchLen}

MatchInit ==
    /\ pc = "match"
    /\ identity \in MatchIdentities
    /\ buffer_id \in 0..MaxPhase
    /\ buffer \in MatchBuffers
    /\ length = Len(buffer)
    /\ offset = 0
    /\ color = 0
    /\ ret = 0
    /\ NoSpray
    /\ NoScan
    /\ NoLoop
    /\ NoKid
    /\ NoTracker

DoColorMatch ==
    /\ pc = "match"
    /\ ret' = ColorMatch(identity, buffer_id, buffer, length)
    /\ pc' = "matched"
    /\ UNCHANGED <<identity, buffer_id, length, buffer, offset, color>>
    /\ UNCHANGED <<sprayVars, kidVars, loopVars, scanVars, trackerVars, logVars>>

MatchNext == DoColorMatch

SpecMatch == MatchInit /\ [][MatchNext]_vars

IsGarbage(c) == ~(c \in 128..156 \/ c \in 64..94)

(* C4: ColorMatch returns the index of the first byte that differs from    *)
(* the expected pattern: the length for a buffer that equals the pattern   *)
(* throughout, and p when the byte at p is garbage and all bytes before p  *)
(* are correct.                                                            *)
PrefixLaw ==
    pc = "matched" =>
        /\ ret \in 0..length
        /\ \A k \in 0..(ret - 1) : At(buffer, k) = Color(identity, buffer_id, k)
        /\ ret < length => At(buffer, ret) # Color(identity, buffer_id, ret)
        /\ buffer = Paint(identity, buffer_id, length) => ret = length
        /\ \A p \in 0..(length - 1) :
              (/\ IsGarbage(At(buffer, p))
               /\ Sub(buffer, 0, p) = Paint(identity, buffer_id, p)) => ret = p

PrefixLawWitness ==
    /\ pc = "matched"
    /\ length = MaxMatchLen
    /\ ret = 2
    /\ IsGarbage(At(buffer, 2))
    /\ buffer_id = 1

---------------------------------------------------------------------------
(* TwoColor::CrackColor on every byte, for every local identity.            *)

CrackInit ==
    /\ pc = "crack"
    /\ identity \in Identities
    /\ color \in Byte
    /\ buffer_id = 0
    /\ length = 0
    /\ buffer = <<>>
    /\ offset = 0
    /\ ret = ""
    /\ NoSpray
    /\ NoScan
    /\ NoLoop
    /\ NoKid
    /\ NoTracker

DoCrackColor ==
    /\ pc = "crack"
    /\ ret' = CrackColor(identity, color)
    /\ pc' = "cracked"
    /\ UNCHANGED <<identity, buffer_id, length, buffer, offset, color>>
    /\ UNCHANGED <<sprayVars, kidVars, loopVars, scanVars, trackerVars, logVars>>

CrackNext == DoCrackColor

SpecCrack == CrackInit /\ [][CrackNext]_vars

\* The class the priority rule gives byte c for local identity i.
ClassOf(i, c) ==
    IF IsGarbage(c) THEN "Garbage"
    ELSE IF c % 32 = 0 THEN "Root"
    ELSE IF (c >= 128 /\ c - 128 = i % 29) \/ (c < 128 /\ c - 64 = i % 31)
         THEN "Local"
    ELSE "Foreign"

(* C5: CrackColor puts every byte in exactly one class, by priority:       *)
(* Garbage if it is no valid Low (0x80, residue < 29) or High (0x40,        *)
(* residue < 31) colour, else Root if its residue is 0, else Local if it is *)
(* the local identity's colour under its own modulus, else Foreign; a       *)
(* non-garbage byte is reported with residue c & 0x1f and modulus 29 (Low)  *)
(* or 31 (High).                                                            *)
CrackColorClasses ==
    pc = "cracked" =>
        ret = IF ClassOf(identity, color) = "Garbage"
              THEN ToString(color) \o " Garbage"
              ELSE ToString(color) \o " " \o ClassOf(identity, color) \o " [" \o
                   ToString(color % 32) \o " mod " \o
                   (IF color >= 128 THEN "29" ELSE "31") \o "]"

CrackColorClassesWitness ==
    /\ pc = "cracked"
    /\ identity = 29
    /\ color = 128
    /\ ret = "128 Root [0 mod 29]"

---------------------------------------------------------------------------
(* A Summarizer driven directly, as TEST(Summarizer, OneRange) and          *)
(* TEST(Summarizer, MultiRange) drive it, up to and past kSpewLimit         *)
(* reports: a run of consecutive positions from 0, as OneRange makes, until *)
(* FreeBefore reports remain before the one that squelches, then reports at *)
(* freely chosen positions (adjacent, repeated, skipping one, back at 0),   *)
(* as MultiRange makes, until MaxAfter reports past the squelching one.     *)

\* SprayPaint spray_paint(20000): papa's buffer, long enough for the run.
TestBufferLen == kSpewLimit + 2 * (FreeBefore + MaxAfter) + 2

TestInit ==
    /\ pc = "tracker"
    /\ kid_ = 0
    /\ last_painted_by_ = 0
    /\ round_ = 0
    /\ label = "test"
    /\ buffer_id = 0
    /\ buffer = Paint(0, 0, TestBufferLen)
    /\ summarizer \in Construct("test", buffer)
    /\ out = <<>>
    /\ n_reports = 0
    /\ n_details = 0
    /\ n_summaries = 0
    /\ ret = TRUE
    /\ NoCodec
    /\ NoScan
    /\ NoLoop
    /\ NoKid

\* The positions the test may report next.
TestPositions ==
    IF n_reports < kSpewLimit - 1 - FreeBefore
    THEN {n_reports}
    ELSE {p \in {0, summarizer.range_end_, summarizer.range_end_ + 1,
                 summarizer.range_end_ + 2} : p < Len(buffer)}

\* The colours the test may report next: 13 as the tests do, and a second
\* one for the freely placed reports.
TestColors ==
    IF n_reports < kSpewLimit - 1 - FreeBefore THEN {13} ELSE {13, 11}

\* s.Report(k, 13, "junk")
TestReport ==
    /\ pc = "tracker"
    /\ n_reports < kSpewLimit + MaxAfter
    /\ \E position \in TestPositions, c \in TestColors :
         \E o \in Report(summarizer, position, c, "junk") :
            /\ Logged(o)
            /\ reported' = Append(reported, position)
            /\ color' = c
            /\ pc' = IF o.crashed THEN "crashed" ELSE "tracker"
    /\ n_reports' = n_reports + 1
    /\ UNCHANGED <<identity, buffer_id, length, buffer, offset, ret>>
    /\ UNCHANGED <<sprayVars, kidVars, loopVars, scan_k, ok, finish_calls, scans>>

\* s.Finish()
TestFinish ==
    /\ pc = "tracker"
    /\ \E o \in Finish(summarizer) :
         /\ Logged(o)
         /\ pc' = IF o.crashed THEN "crashed" ELSE "finished"
    /\ finish_calls' = finish_calls + 1
    /\ n_reports' = n_reports
    /\ UNCHANGED <<codecVars, sprayVars, kidVars, loopVars, scan_k, ok, reported, scans>>

TestNext == TestReport \/ TestFinish

SpecSquelch == TestInit /\ [][TestNext]_vars

(* C6: once the lifetime fail count, the current report included, has      *)
(* reached kSpewLimit = 600, no per-event detail text is logged for that   *)
(* report or any later one, and total_fails still grows by 1 with every    *)
(* Report.                                                                 *)
SquelchLaw ==
    /\ summarizer.total_fails_ = n_reports
    /\ n_details = Min(n_reports, kSpewLimit - 1)
    /\ n_reports >= kSpewLimit => DetailsIn(out) = {}

SquelchLawWitness ==
    /\ pc = "tracker"
    /\ n_reports = kSpewLimit + MaxAfter
    /\ summarizer.total_fails_ = kSpewLimit + MaxAfter
    /\ n_details = kSpewLimit - 1

\* The step is a call of Report that returned.
IsReport == n_reports' = n_reports + 1 /\ pc' # "crashed"

Last(seq) == seq[Len(seq)]

ReportedInRange ==
    {reported[j] : j \in (Len(reported) - summarizer.range_fails_ + 1)..Len(reported)}

(* C8: in every state of an Active tracker the current range is a run of   *)
(* consecutive reported positions: every position in [range_start,         *)
(* range_end] was reported in this range and range_end - range_start + 1   *)
(* is the in-range fail count.                                             *)
RangeContiguity ==
    summarizer.active_ =>
        /\ \A p \in summarizer.range_start_..summarizer.range_end_ :
              p \in ReportedInRange
        /\ summarizer.range_end_ - summarizer.range_start_ + 1
              = summarizer.range_fails_

(* C9: every range summary that Report or Finish emits has range_start <=  *)
(* range_end and a length range_end - range_start + 1 of at least 1 that   *)
(* did not wrap, so that Identify runs on a non-empty sub-buffer of the    *)
(* reported positions.                                                     *)
EmittedRangeNonEmpty ==
    \A s \in SummariesIn(out) :
        /\ s.start <= s.end
        /\ s.length >= 1
        /\ \A p \in s.start..(s.start + s.length - 1) :
              \E j \in DOMAIN reported : reported[j] = p

(* C10: the lifetime fail counter starts at 0, grows by exactly 1 with     *)
(* every Report, whatever its position and the squelch state, and nothing  *)
(* else (Finish, a new range, clearing the histogram) changes it: it is    *)
(* the number of Report calls made so far.                                 *)
TotalFailsCountsReports ==
    [][summarizer'.total_fails_ =
          summarizer.total_fails_ + (IF n_reports' = n_reports THEN 0 ELSE 1)]_vars

TotalFailsCountsReportsWitness ==
    /\ pc = "finished"
    /\ n_reports > kSpewLimit
    /\ summarizer.total_fails_ = n_reports
    /\ summarizer.range_count_ >= 2
    /\ n_summaries = summarizer.range_count_

\* The maximal runs of position-consecutive reports in a sequence of
\* reported positions.
Runs(seq) ==
    IF seq = <<>> THEN 0
    ELSE 1 + Cardinality({j \in 2..Len(seq) : seq[j] # seq[j - 1] + 1})

(* C11: after fewer than 600 Report calls on a fresh tracker, before and   *)
(* after Finish, range_count() is the number of maximal runs of            *)
(* position-consecutive reports (positions may repeat or go backwards) and *)
(* total_fails() the number of reports; with no report both are 0.         *)
RangeCountIsRuns ==
    (n_reports < kSpewLimit /\ pc \in {"tracker", "finished"}) =>
        /\ summarizer.range_count_ = Runs(reported)
        /\ summarizer.total_fails_ = Len(reported)
        /\ reported = <<>> =>
              summarizer.range_count_ = 0 /\ summarizer.total_fails_ = 0

RangeCountIsRunsWitness ==
    /\ pc = "finished"
    /\ n_reports = kSpewLimit - 1
    /\ Len(reported) = kSpewLimit - 1
    /\ Last(reported) < reported[Len(reported) - 1]
    /\ summarizer.range_count_ = 3

---------------------------------------------------------------------------
(* Identify on painted, constant and tampered buffers, from an offset      *)
(* (TEST(TwoColor, Match), ShortMatch, Constant, ConstantPreamble).        *)

IdentifyIdentities == {0, 32, 898}

\* memset(b, c, sizeof(b))
MemsetBytes == {LowColor(0), 0}

\* The values a test may store over a painted byte: garbage, the colours of
\* another owner, the owner's own colours.
TamperBytes == {0, LowColor(5), HighColor(5), LowColor(identity), HighColor(identity)}

IdentifyInit ==
    /\ pc = "paint"
    /\ identity \in IdentifyIdentities
    /\ buffer_id \in 0..MaxBufferId
    /\ length \in 0..MaxIdLen
    /\ buffer = <<>>
    /\ offset = 0
    /\ color = 0
    /\ ret = nullopt
    /\ NoSpray
    /\ NoScan
    /\ NoLoop
    /\ NoKid
    /\ NoTracker

\* memset(b, c, sizeof(b))
Memset ==
    /\ pc = "paint"
    /\ \E c \in MemsetBytes : buffer' = [j \in 1..length |-> c]
    /\ pc' = "identify"
    /\ UNCHANGED <<identity, buffer_id, length, offset, color, ret>>
    /\ UNCHANGED <<sprayVars, kidVars, loopVars, scanVars, trackerVars, logVars>>

\* b[p] = c, and possibly b[p + 1] = d
Scribble ==
    /\ pc = "identify"
    /\ \E p \in 0..(length - 1) : \E c \in TamperBytes \ {At(buffer, p)} :
         \/ buffer' = [buffer EXCEPT ![p + 1] = c]
         \/ /\ p + 1 < length
            /\ \E d \in TamperBytes \ {At(buffer, p + 1)} :
                 buffer' = [buffer EXCEPT ![p + 1] = c, ![p + 2] = d]
    /\ pc' = "scribbled"
    /\ UNCHANGED <<identity, buffer_id, length, offset, color, ret>>
    /\ UNCHANGED <<sprayVars, kidVars, loopVars, scanVars, trackerVars, logVars>>

\* v = TwoColor::Identify(b + offset, sizeof(b) - offset)
IdentifyAt ==
    /\ pc \in {"identify", "scribbled"}
    /\ \E o \in 0..Min(MaxOffset, length) :
         /\ offset' = o
         /\ ret' = Identify(Sub(buffer, o, length - o), length - o)
    /\ pc' = "identified"
    /\ UNCHANGED <<identity, buffer_id, length, buffer, color>>
    /\ UNCHANGED <<sprayVars, kidVars, loopVars, scanVars, trackerVars, logVars>>

IdentifyNext == DoPaint \/ Memset \/ Scribble \/ IdentifyAt

SpecIdentify == IdentifyInit /\ [][IdentifyNext]_vars

\* The bytes Identify was given: byte k of buffer + offset.
Given(k) == buffer[offset + k + 1]

GivenLength == length - offset

(* C12: Identify returns no result for a buffer filled with one repeated   *)
(* byte value, whatever the length and the value, and more generally       *)
(* whenever the first min(length, 7) bytes are all equal, whatever follows *)
(* them.                                                                   *)
ConstantBufferLaw ==
    (/\ pc = "identified"
     /\ \A k \in 0..(Min(GivenLength, kPeriod) - 1) : Given(k) = Given(0))
        => ~ret.has_value

ConstantBufferLawWitness ==
    /\ pc = "identified"
    /\ offset = 1
    /\ GivenLength > kPeriod + 1
    /\ \A k \in 0..(kPeriod - 1) : Given(k) = LowColor(0)
    /\ Given(kPeriod) = HighColor(5)
    /\ ~ret.has_value

\* Valid colours, by value: tag 0x80 with residue below 29, tag 0x40 with
\* residue below 31.
ValidLow(c) == c \in 128..156

ValidHigh(c) == c \in 64..94

\* Where the bytes given to Identify first differ from byte 0, among the
\* first min(length, 7).
Transitions == {k \in 1..(Min(GivenLength, kPeriod) - 1) : Given(k) # Given(0)}

TransitionAt == CHOOSE k \in Transitions : \A j \in Transitions : k <= j

LowFirst == ValidLow(Given(0)) /\ ValidHigh(Given(TransitionAt))

HighFirst == ValidHigh(Given(0)) /\ ValidLow(Given(TransitionAt))

\* A transition between one valid Low and one valid High colour.
ValidTransition == Transitions # {} /\ (LowFirst \/ HighFirst)

\* The owner whose residues modulo 29 and 31 the two colours carry.
ResolvedOwner ==
    LET low == IF LowFirst THEN Given(0) ELSE Given(TransitionAt)
        high == IF LowFirst THEN Given(TransitionAt) ELSE Given(0)
    IN  CHOOSE i \in Identities : i % 29 = low - 128 /\ i % 31 = high - 64

\* The phase that puts the Low to High step (selector 3) or the High to Low
\* step (selector 0) of the pattern at the transition.
ResolvedPhase ==
    IF LowFirst THEN (10 - TransitionAt) % 7 ELSE (7 - TransitionAt) % 7

\* How many of the bytes given to Identify, from the first on, carry the
\* pattern of owner i at phase ph.
GenuinePrefix(i, ph) ==
    Cardinality({m \in 1..GivenLength :
                    \A j \in 0..(m - 1) : Given(j) = Color(i, ph, j)})

(* C13: when a valid Low/High transition is found but the prefix matching  *)
(* the resolved identity and phase is no longer than 7, Identify returns   *)
(* no result; Identify never returns a record whose length is <= 7.        *)
ShortEvidenceLaw ==
    pc = "identified" =>
        /\ ret.has_value => ret.length > 7
        /\ (ValidTransition /\ GenuinePrefix(ResolvedOwner, ResolvedPhase) <= 7)
              => ~ret.has_value

ShortEvidenceLawWitness ==
    /\ pc = "identified"
    /\ ValidTransition
    /\ GenuinePrefix(ResolvedOwner, ResolvedPhase) = 7
    /\ GivenLength > 8
    /\ ~ret.has_value

\* The buffer as Paint(identity, buffer_id, buffer, length) leaves it.
Painted == Paint(identity, buffer_id, length)

\* Bytes offset..p-1 are as painted, and the painted run ends at p: p is the
\* end of the buffer or the byte at p is not the painted one.
GenuineUpTo(p) ==
    /\ \A j \in (offset + 1)..p : buffer[j] = Painted[j]
    /\ p = length \/ buffer[p + 1] # Painted[p + 1]

(* C14: for a buffer painted by Paint(i, b, buffer, n), an offset o and a  *)
(* p <= n with p - o > 7, if bytes o..p-1 are unmodified and p = n or the  *)
(* byte at p differs from its painted value, Identify(buffer + o, n - o)   *)
(* returns identity i, phase (b + o) mod 7 and length p - o, whatever the  *)
(* bytes after p contain.                                                  *)
GenuinePrefixTolerance ==
    pc = "identified" =>
        \A p \in (offset + 8)..length :
            GenuineUpTo(p) =>
                /\ ret.has_value
                /\ ret.identity = identity
                /\ ret.phase = (buffer_id + offset) % 7
                /\ ret.length = p - offset

GenuinePrefixToleranceWitness ==
    /\ pc = "identified"
    /\ offset = 0
    /\ identity = 898
    /\ buffer_id = 5
    /\ length = MaxIdLen
    /\ GenuineUpTo(MaxIdLen - 2)
    /\ buffer[MaxIdLen] # Painted[MaxIdLen]
    /\ ret.has_value
    /\ ret.length = MaxIdLen - 2

---------------------------------------------------------------------------
(* ColorIsRight on a buffer part of which holds the content of another     *)
(* buffer: that of owner f at phase q, or one repeated byte.               *)

Stainers == {0, 3, 5}

\* The buffer painted for 'owner', with bytes from..from+n-1 taken from a
\* buffer painted for f.
Stained(owner, bid, from, n, f, q) ==
    [j \in 1..StainedLen |->
        IF j - 1 \in from..(from + n - 1)
        THEN Color(f, q, j - 1 - from)
        ELSE Color(owner, bid, j - 1)]

\* The same with one repeated byte in place of a painted pattern.
Blotted(owner, bid, from, n, c) ==
    [j \in 1..StainedLen |->
        IF j - 1 \in from..(from + n - 1) THEN c ELSE Color(owner, bid, j - 1)]

StainInit ==
    /\ pc = "call"
    /\ \E call \in ScanCalls :
         /\ kid_ = call.kid
         /\ last_painted_by_ = call.last
         /\ label = call.ident
         /\ buffer_id = call.buffer_id
         /\ \E from \in {0, 2} : \E n \in (kPeriod - 1)..MaxStain :
              \/ \E f \in Stainers : \E q \in 0..(kPeriod - 1) :
                   buffer = Stained(call.last, call.buffer_id, from, n, f, q)
              \/ buffer = Blotted(call.last, call.buffer_id, from, n, 11)
    /\ round_ = 0
    /\ ret = TRUE
    /\ NoCodec
    /\ NoScan
    /\ NoLoop
    /\ NoKid
    /\ NoTracker

SpecStain == StainInit /\ [][Next]_vars

\* What Identify makes of the bytes of an emitted range.
RangeIdentity(s) == Identify(Sub(buffer, s.start, s.length), s.length)

(* C15: a range summary is flagged 'Indiscretion', naming the foreign      *)
(* identity and the match length, if and only if Identify on the range     *)
(* resolves an identity that differs from the owner of the buffer being    *)
(* scanned (the identity the scan verifies against), is not the root       *)
(* identity 0 and matched more than 6 bytes; an identity that resolves     *)
(* without these conditions is shown as the raw record; with none resolved *)
(* the range is indeterminate.                                             *)
ContaminationFlag ==
    \A s \in SummariesIn(out) :
        LET r == RangeIdentity(s)
        IN  IF r.has_value
            THEN IF r.identity # last_painted_by_ /\ r.identity # 0 /\ r.length > 6
                 THEN /\ s.identity.kind = "indiscretion"
                      /\ s.identity.identity = r.identity
                      /\ s.identity.length = r.length
                 ELSE /\ s.identity.kind = "identity"
                      /\ s.identity.identity = r.identity
                      /\ s.identity.length = r.length
                      /\ s.identity.phase = r.phase
            ELSE s.identity.kind = "indeterminate"

---------------------------------------------------------------------------
(* Candidates, the one caller of Crt, on two-byte buffers: the two colours *)
(* of every identity in either order, and every pair of bytes drawn from   *)
(* the valid colours and some garbage.                                     *)

CrtBytes == 128..156 \cup 64..94 \cup {0, 95, 157, 255}

CrtInit ==
    /\ pc = "candidates"
    /\ \/ /\ identity \in Identities
          /\ buffer \in {<<LowColor(identity), HighColor(identity)>>,
                         <<HighColor(identity), LowColor(identity)>>}
       \/ /\ identity = 0
          /\ buffer \in [1..2 -> CrtBytes]
    /\ buffer_id = 0
    /\ length = 2
    /\ offset = 0
    /\ color = 0
    /\ ret = nullopt
    /\ NoSpray
    /\ NoScan
    /\ NoLoop
    /\ NoKid
    /\ NoTracker

\* auto c = Candidates(buffer, length)
DoCandidates ==
    /\ pc = "candidates"
    /\ ret' = Candidates(buffer, length)
    /\ pc' = "resolved"
    /\ UNCHANGED <<identity, buffer_id, length, buffer, offset, color>>
    /\ UNCHANGED <<sprayVars, kidVars, loopVars, scanVars, trackerVars, logVars>>

CrtNext == DoCandidates

SpecCrt == CrtInit /\ [][CrtNext]_vars

\* The two bytes are one valid Low and one valid High colour, in either
\* order.
LowHighPair ==
    \/ ValidLow(buffer[1]) /\ ValidHigh(buffer[2])
    \/ ValidHigh(buffer[1]) /\ ValidLow(buffer[2])

PairLow == IF ValidLow(buffer[1]) THEN buffer[1] ELSE buffer[2]

PairHigh == IF ValidHigh(buffer[1]) THEN buffer[1] ELSE buffer[2]

(* C16: Crt(LowColor(i), HighColor(i)) = i for every identity i in         *)
(* [0, 899); for every pair of a valid Low and a valid High colour Crt     *)
(* returns an identity in [0, 899) that reproduces both colours, and 0     *)
(* only when both residues are 0; Crt is called with one valid Low and one *)
(* valid High colour only.                                                 *)
CrtIsBijection ==
    pc = "resolved" =>
        /\ ret.has_value <=> LowHighPair
        /\ LowHighPair =>
              /\ ret.identity \in 0..898
              /\ ret.identity % 29 = PairLow - 128
              /\ ret.identity % 31 = PairHigh - 64
              /\ ret.identity = 0 => (PairLow = 128 /\ PairHigh = 64)
        /\ (PairLow = 128 + (identity % 29) /\ PairHigh = 64 + (identity % 31)
                /\ LowHighPair)
              => ret.identity = identity

CrtIsBijectionWitness ==
    /\ pc = "resolved"
    /\ identity = 898
    /\ buffer = <<94, 156>>
    /\ ret.has_value
    /\ ret.identity = 898

\* The step is a call of Finish.
IsFinish == finish_calls' = finish_calls + 1

AbsenceLaw ==
    pc = "identified" =>
        /\ GivenLength < 2 => ret = nullopt
        /\ (Transitions # {} /\ ~(LowFirst \/ HighFirst)) => ret = nullopt
        /\ ret.has_value => ValidTransition

AbsenceLawWitness ==
    /\ pc = "identified"
    /\ GivenLength > kPeriod + 1
    /\ Transitions # {}
    /\ ValidLow(Given(0))
    /\ ValidLow(Given(TransitionAt))
    /\ \A k \in 0..(GivenLength - 1) :
          k # TransitionAt => Given(k) = Color(identity, buffer_id + offset, k)
    /\ ret = nullopt

---------------------------------------------------------------------------
(* Loopback: Kid's Writer and Reader threads on the two ends of a          *)
(* socketpair.  write() blocks while the socket is full and may transfer   *)
(* fewer bytes than asked; read() blocks while the socket is empty and the *)
(* other end is open, and may return fewer bytes than asked.  The socket   *)
(* may hand over bytes other than those written.                           *)

\* What a byte may turn into in transit.
GarbleBytes == {0, LowColor(5)}

\* Bytes written so far that differ from the buffer's.
Garbled ==
    LET sent == received \o sock
    IN  Cardinality({j \in 1..Len(sent) : sent[j] # buffer[j]})

\* What the socket may take up from write(fd, buffer_ + p, rc).
Deliveries(p, rc) ==
    LET faithful == Sub(buffer, p, rc)
    IN  {faithful} \cup
        IF Garbled < MaxGarble
        THEN {[faithful EXCEPT ![j] = c] : j \in 1..rc, c \in GarbleBytes}
        ELSE {}

LoopInit ==
    /\ pc = "loopback"
    /\ kid_ = 3
    /\ last_painted_by_ = 3
    /\ round_ = 0
    /\ label = "Pipe"
    /\ buffer_id = 0
    /\ \E n \in 1..MaxLoopLen : buffer = Paint(3, 0, n)
    /\ ret = FALSE
    /\ sock = <<>>
    /\ w_pc = "loop"
    /\ w_p = 0
    /\ r_pc = "loop"
    /\ r_p = 0
    /\ failures = 0
    /\ received = <<>>
    /\ NoCodec
    /\ NoScan
    /\ NoTracker
    /\ NoKid

\* One pass of Writer's loop: write() takes rc of the len bytes offered.
WriterStep ==
    /\ w_pc = "loop"
    /\ w_p < Len(buffer)
    /\ Len(sock) < SockCap
    /\ \E len \in 1..Min(Len(buffer) - w_p, MaxTransfer) :
         \E rc \in 1..Min(len, SockCap - Len(sock)) :
            /\ \E bytes \in Deliveries(w_p, rc) : sock' = sock \o bytes
            /\ w_p' = w_p + rc
    /\ UNCHANGED <<pc, codecVars, sprayVars, kidVars, scanVars, trackerVars, logVars>>
    /\ UNCHANGED <<w_pc, r_pc, r_p, failures, received>>

\* close(fd) and return.
WriterClose ==
    /\ w_pc = "loop"
    /\ w_p >= Len(buffer)
    /\ w_pc' = "done"
    /\ UNCHANGED <<pc, codecVars, sprayVars, kidVars, scanVars, trackerVars, logVars>>
    /\ UNCHANGED <<sock, w_p, r_pc, r_p, failures, received>>

\* v[k] != buffer_[p], p having advanced k times from the chunk's start
ReaderExpectsInChunk(p, k) == At(buffer, k)

ReaderExpects(p, k) == At(buffer, p + k)

\* The for loop over the rc bytes of v, from index k: the outcomes o, each
\* with the chunk's Summarizer, the failures, the lines logged and the
\* number of Report calls.
RECURSIVE Compare(_, _, _, _)
Compare(o, v, p, k) ==
    IF o.crashed \/ k >= Len(v) THEN {o}
    ELSE IF At(v, k) # ReaderExpects(p, k)
    THEN IF o.failures + 1 < kReaderSpewLimit
         THEN UNION {Compare([crashed |-> r.crashed, t |-> r.t,
                              failures |-> o.failures + 1,
                              lines |-> o.lines \o r.lines, n |-> o.n + 1],
                             v, p, k + 1) :
                        r \in Report(o.t, k, At(v, k), ErrorMessage(At(v, k), k))}
         ELSE Compare([o EXCEPT !.failures = @ + 1], v, p, k + 1)
    ELSE Compare(o, v, p, k + 1)

\* One pass of Reader's loop body on the bytes v that read() returned.
ReadChunk(v, p, f) ==
    UNION {UNION {IF o.crashed THEN {o}
                  ELSE {[o EXCEPT !.crashed = e.crashed, !.lines = @ \o e.lines] :
                           e \in Finish(o.t)} :
                     o \in Compare([crashed |-> FALSE, t |-> t, failures |-> f,
                                    lines |-> <<>>, n |-> 0], v, p, 0)} :
              t \in Construct(Ident("Pipe", 0), v)}

\* One pass of Reader's loop: read() returns rc of the len bytes asked for,
\* or 0 at end of file.
ReaderStep ==
    /\ r_pc = "loop"
    /\ r_p < Len(buffer)
    /\ sock # <<>> \/ w_pc = "done"
    /\ \E len \in 1..Min(MaxTransfer, Len(buffer) - r_p) :
         \E rc \in IF sock = <<>> THEN {0} ELSE 1..Min(len, Len(sock)) :
            LET v == SubSeq(sock, 1, rc)
            IN  /\ sock' = SubSeq(sock, rc + 1, Len(sock))
                /\ received' = received \o v
                /\ r_p' = r_p + rc
                /\ \E o \in ReadChunk(v, r_p, failures) :
                     /\ failures' = o.failures
                     /\ out' = o.lines
                     /\ n_reports' = n_reports + o.n
                     /\ n_details' = n_details + CountKind(o.lines, "detail")
                     /\ n_summaries' = n_summaries + CountKind(o.lines, "summary")
                     /\ r_pc' = IF o.crashed THEN "crashed" ELSE "loop"
    /\ UNCHANGED <<pc, codecVars, sprayVars, kidVars, scanVars, trackerVars>>
    /\ UNCHANGED <<w_pc, w_p>>

\* close(fd); return failures > 0, which the thread stores in 'failed'.
ReaderExit ==
    /\ r_pc = "loop"
    /\ r_p >= Len(buffer)
    /\ r_pc' = "done"
    /\ ret' = (failures > 0)
    /\ out' = IF failures > 0
              THEN <<[ident |-> "", kind |-> "total", text |-> failures]>>
              ELSE <<>>
    /\ UNCHANGED <<pc, identity, buffer_id, length, buffer, offset, color>>
    /\ UNCHANGED <<sprayVars, kidVars, scanVars, trackerVars>>
    /\ UNCHANGED <<n_reports, n_details, n_summaries>>
    /\ UNCHANGED <<sock, w_pc, w_p, r_p, failures, received>>

\* w_thread.join(); r_thread.join();
Join ==
    /\ pc = "loopback"
    /\ w_pc = "done"
    /\ r_pc = "done"
    /\ pc' = "joined"
    /\ UNCHANGED <<codecVars, sprayVars, kidVars, scanVars, trackerVars, logVars, loopVars>>

LoopNext == WriterStep \/ WriterClose \/ ReaderStep \/ ReaderExit \/ Join

\* Each thread that can run does run in the end.
LoopFairness ==
    /\ WF_vars(WriterStep)
    /\ WF_vars(WriterClose)
    /\ WF_vars(ReaderStep)
    /\ WF_vars(ReaderExit)
    /\ WF_vars(Join)

SpecLoopback == LoopInit /\ [][LoopNext]_vars /\ LoopFairness

\* The received bytes that differ from the buffer's byte of the same index.
Differing == {j \in 1..Len(received) : received[j] # buffer[j]}

LoopbackSafe ==
    /\ r_pc # "crashed"
    /\ r_p = Len(received)
    /\ r_p <= Len(buffer)
    /\ w_p = Len(received) + Len(sock)
    /\ w_p <= Len(buffer)
    /\ failures = Cardinality(Differing)
    /\ r_pc = "done" => (r_p = Len(buffer) /\ ret = (Differing # {}))

(* C19: Writer and Reader run concurrently with chunk lengths of their     *)
(* own; for every interleaving and chunking, short writes and reads        *)
(* included, both terminate, Reader consumes exactly buffer_size bytes and *)
(* compares the j-th byte received with buffer_[j], it returns true if and *)
(* only if a received byte differs from the buffer's, and neither thread   *)
(* modifies the buffer.                                                    *)
LoopbackLaw ==
    /\ []LoopbackSafe
    /\ [][buffer' = buffer]_vars
    /\ <>(w_pc = "done" /\ r_pc = "done")

LoopbackLawWitness ==
    /\ pc = "joined"
    /\ Len(buffer) = MaxLoopLen
    /\ Len(received) = MaxLoopLen
    /\ received[MaxLoopLen] # buffer[MaxLoopLen]
    /\ failures = 1
    /\ ret = TRUE


---------------------------------------------------------------------------
(* SprayPaint::Kid(round, kid), from the object the constructor left: the  *)
(* affinity call, the scans of papa's buffer, the repaint, the mapped      *)
(* buffers, the loopback and the final scans.  Every ColorIsRight call is  *)
(* the scan above (ScanBegin, ScanStep, ScanEnd) on the bytes its 'buffer'  *)
(* argument points to; the threads are those of the loopback above.  The   *)
(* system may fail mmap, socketpair or munmap, may hand over mapped memory *)
(* that is not zero and may alter bytes in the socket; env records which   *)
(* of these happened, and whether papa's buffer came altered.              *)

\* const size_t SprayPaint::kMappedBufferSize = 3 * kPageSize;
kMappedBufferSize == 3 * PageSize

\* The buffer_size arguments of the constructor: below and above
\* kMappedBufferSize.
CtorSizes == {0, kMappedBufferSize + 1}

\* buffer_size_(std::max<size_t>(buffer_size, kMappedBufferSize))
BufferSize(buffer_size) ==
    IF buffer_size > kMappedBufferSize THEN buffer_size ELSE kMappedBufferSize

\* The calls made: Kid(11, 3).
KidCalls == {[round |-> 11, kid |-> 3]}

\* What a byte of papa's buffer may have turned into when Kid starts.
KidStains == {11, HighColor(3)}

\* What a byte of freshly mapped memory may hold instead of zero.
DirtyBytes == {1, LowColor(3)}

\* What mmap may hand over: zeroed memory, or memory with one byte set.
FreshMaps ==
    LET zeros == [j \in 1..kMappedBufferSize |-> 0]
    IN  {zeros} \cup
        {[zeros EXCEPT ![j] = c] : j \in 1..kMappedBufferSize, c \in DirtyBytes}

\* A line Kid or one of its callees logs with SAFELOG(ERROR).
ErrorLine(text) == [ident |-> "", kind |-> "error", text |-> text]

\* The state after SprayPaint(buffer_size): SetKid(0), Paint(), three scans
\* that passed; since then one byte of the buffer may have changed.
KidInit ==
    /\ pc = "kid"
    /\ kid_ = 0
    /\ last_painted_by_ = 0
    /\ round_ = 0
    /\ label = ""
    /\ \E buffer_size \in CtorSizes :
         LET painted == Paint(0, 0, BufferSize(buffer_size))
         IN  \/ buffer_ = painted /\ env = {}
             \/ /\ \E j \in 1..Len(painted), c \in KidStains :
                      buffer_ = [painted EXCEPT ![j] = c]
                /\ env = {"buffer"}
    /\ mapping = <<>>
    /\ kid_k = 0
    /\ buffer = <<>>
    /\ buffer_id = 0
    /\ ret = 0
    /\ NoCodec
    /\ NoScan
    /\ NoLoop
    /\ NoTracker

\* ColorIsRight(buffer_id, buffer, buffer_size, ident) is entered.
CallScan(ident, bid, buf) ==
    /\ label' = ident
    /\ buffer_id' = bid
    /\ buffer' = buf
    /\ pc' = "call"

\* A failed step that logs its error and returns 0.
KidFailsReturnsZero(text) ==
    /\ out' = <<ErrorLine(text)>>
    /\ ret' = 0
    /\ pc' = "returned"

\* SAFELOG(ERROR) << ...; return 1;
KidFails(text) ==
    /\ out' = <<ErrorLine(text)>>
    /\ ret' = 1
    /\ pc' = "returned"

\* Kid's body entered whatever TrySetAffinity returned.
AffinityIgnored(affinity) == TRUE

\* if (TrySetAffinity(kid - 1)) { ... }
KidRunsBody(affinity) == affinity

\* round_ = round; if (TrySetAffinity(kid - 1)) { SetKid(kid); and the first
\* CheckPapa scan is entered; otherwise return 0.  TrySetAffinity logs its
\* failure unless --ignore_affinity_failure is set.
KidBegin ==
    /\ pc = "kid"
    /\ \E call \in KidCalls, affinity \in BOOLEAN,
          ignore_affinity_failure \in BOOLEAN :
         /\ round_' = call.round
         /\ env' = IF affinity THEN env ELSE env \cup {"affinity"}
         /\ out' = IF affinity \/ ignore_affinity_failure THEN <<>>
                   ELSE <<ErrorLine("setaffinity failed")>>
         /\ IF KidRunsBody(affinity)
            THEN /\ kid_' = call.kid
                 /\ kid_k' = 0
                 /\ CallScan("CheckPapa", 0, buffer_)
                 /\ UNCHANGED ret
            ELSE /\ ret' = 0
                 /\ pc' = "returned"
                 /\ UNCHANGED <<kid_, kid_k, label, buffer_id, buffer>>
    /\ UNCHANGED <<identity, length, offset, color, last_painted_by_>>
    /\ UNCHANGED <<scanVars, trackerVars, loopVars, buffer_, mapping>>
    /\ UNCHANGED <<n_reports, n_details, n_summaries>>

\* The indices kk CowPoke writes at in a buffer of buffer_size bytes:
\* for (k = 0; k < buffer_size_; k += kPageSize) kk = k + (k % kPageSize)
Poked(buffer_size) ==
    {k + (k % PageSize) :
        k \in {j \in 0..(buffer_size - 1) : j % PageSize = 0}}

\* The byte written taken from kid_ instead of last_painted_by_.
PokeColorOfKid(kk) == Color(kid_, 0, kk)

\* TwoColor::Color(last_painted_by_, 0, kk)
PokeColor(kk) == Color(last_painted_by_, 0, kk)

\* SprayPaint::CowPoke(): one byte of each page rewritten with its colour.
CowPoke(buf) ==
    [j \in 1..Len(buf) |->
        IF j - 1 \in Poked(Len(buf)) THEN PokeColor(j - 1) ELSE buf[j]]

\* What a finished call leaves behind: its arguments, the members it read,
\* its verdict and what it reported and logged.
Scanned ==
    [ident |-> label, buffer_id |-> buffer_id, buffer |-> buffer,
     kid_ |-> kid_, round_ |-> round_, last_painted_by_ |-> last_painted_by_,
     ret |-> ret, reported |-> reported,
     total_fails_ |-> summarizer.total_fails_,
     range_count_ |-> summarizer.range_count_,
     details |-> n_details, summaries |-> n_summaries, lines |-> out]

\* Kid takes the verdict of the call of ColorIsRight that has returned.
ScanReturned == scans' = Append(scans, Scanned)

\* What every step of Kid after the affinity call leaves alone.
KidFrame ==
    /\ UNCHANGED <<identity, length, offset, color, kid_, round_>>
    /\ UNCHANGED <<scan_k, ok, reported, finish_calls>>
    /\ UNCHANGED <<trackerVars, loopVars>>
    /\ UNCHANGED <<n_reports, n_details, n_summaries>>

\* A CheckPapa scan has returned: k of the for loop advances; after the
\* second, CowPoke() and the PagePromote scan.
KidCheckedPapa ==
    /\ pc = "done"
    /\ label = "CheckPapa"
    /\ ScanReturned
    /\ IF ~ret
       THEN /\ KidFails("Papa buffer came colored wrong")
            /\ UNCHANGED <<label, buffer_id, buffer, buffer_, kid_k>>
       ELSE IF kid_k + 1 < 2
       THEN /\ kid_k' = kid_k + 1
            /\ CallScan("CheckPapa", 0, buffer_)
            /\ UNCHANGED <<ret, out, buffer_>>
       ELSE /\ buffer_' = CowPoke(buffer_)
            /\ CallScan("PagePromote", 0, buffer_')
            /\ UNCHANGED <<ret, out, kid_k>>
    /\ UNCHANGED <<last_painted_by_, mapping, env>>
    /\ KidFrame

\* The PagePromote scan has returned: last_painted_by_ = kid_; Paint(); and
\* the FirstCheckMe scan.
KidPromoted ==
    /\ pc = "done"
    /\ label = "PagePromote"
    /\ ScanReturned
    /\ IF ~ret
       THEN /\ KidFails("Promoted buffer colored wrong")
            /\ UNCHANGED <<label, buffer_id, buffer, buffer_, last_painted_by_>>
       ELSE /\ last_painted_by_' = kid_
            /\ buffer_' = Paint(kid_, 0, Len(buffer_))
            /\ CallScan("FirstCheckMe", 0, buffer_')
            /\ UNCHANGED <<ret, out>>
    /\ UNCHANGED <<mapping, kid_k, env>>
    /\ KidFrame

\* The FirstCheckMe scan has returned: mprotect, and the mapping loop starts.
KidPainted ==
    /\ pc = "done"
    /\ label = "FirstCheckMe"
    /\ ScanReturned
    /\ IF ~ret
       THEN /\ KidFails("Failed to color kid buffer right")
            /\ UNCHANGED <<mapping, kid_k>>
       ELSE /\ mapping' = <<>>
            /\ kid_k' = 0
            /\ pc' = "map"
            /\ UNCHANGED <<ret, out>>
    /\ UNCHANGED <<label, buffer_id, buffer, buffer_, last_painted_by_, env>>
    /\ KidFrame


\* MappedBuffer's loop from index k on the mapped memory o.buf, which the
\* Summarizer o.t points into: a byte that is not zero is reported, then
\* every byte is painted.
RECURSIVE MapFill(_, _, _)
MapFill(o, id, k) ==
    IF o.crashed \/ k >= kMappedBufferSize THEN {o}
    ELSE LET c == At(o.buf, k)
             painted == [o.buf EXCEPT ![k + 1] = Color(last_painted_by_, id, k)]
         IN  IF c # 0
             THEN UNION {MapFill([crashed |-> r.crashed,
                                  t |-> [r.t EXCEPT !.buffer_ = painted],
                                  buf |-> painted, dirty |-> TRUE,
                                  lines |-> o.lines \o r.lines, n |-> o.n + 1],
                                 id, k + 1) :
                            r \in Report(o.t, k, c, ErrorMessage(c, k))}
             ELSE MapFill([o EXCEPT !.buf = painted, !.t.buffer_ = painted],
                          id, k + 1)

\* SprayPaint::MappedBuffer(id) on the memory mmap returned: the outcomes,
\* each with the painted bytes, the dirty flag and the lines logged.
MappedBuffer(id, fresh) ==
    UNION {UNION {IF o.crashed THEN {o}
                  ELSE {[o EXCEPT !.crashed = e.crashed,
                                  !.lines = @ \o e.lines \o
                                      IF o.dirty THEN <<ErrorLine("Dirty map")>>
                                      ELSE <<>>] :
                           e \in Finish(o.t)} :
                     o \in MapFill([crashed |-> FALSE, t |-> t, buf |-> fresh,
                                    dirty |-> FALSE, lines |-> <<>>, n |-> 0],
                                   id, 0)} :
              t \in Construct(Ident("Mapped", id), fresh)}

\* One pass of the mapping loop: uint8_t *p = MappedBuffer(k); if (!p)
\* return 1; mapping.push_back(p).  mmap may fail.
KidMap ==
    /\ pc = "map"
    /\ kid_k < MaxMappings
    /\ \/ /\ KidFails("Map failed")
          /\ env' = env \cup {"mmap"}
          /\ UNCHANGED <<mapping, kid_k, n_reports, n_details, n_summaries>>
       \/ \E fresh \in FreshMaps : \E o \in MappedBuffer(kid_k, fresh) :
            /\ n_reports' = n_reports + o.n
            /\ n_details' = n_details + CountKind(o.lines, "detail")
            /\ n_summaries' = n_summaries + CountKind(o.lines, "summary")
            /\ env' = IF o.dirty THEN env \cup {"dirty"} ELSE env
            /\ IF o.crashed
               THEN /\ pc' = "crashed"
                    /\ out' = o.lines
                    /\ UNCHANGED <<ret, mapping, kid_k>>
               ELSE IF o.dirty
               THEN /\ pc' = "returned"
                    /\ ret' = 1
                    /\ out' = o.lines \o <<ErrorLine("failed map")>>
                    /\ UNCHANGED <<mapping, kid_k>>
               ELSE /\ mapping' = Append(mapping, o.buf)
                    /\ kid_k' = kid_k + 1
                    /\ out' = o.lines
                    /\ UNCHANGED <<pc, ret>>
    /\ UNCHANGED <<identity, length, offset, color, label, buffer_id, buffer>>
    /\ UNCHANGED <<kid_, round_, last_painted_by_, buffer_>>
    /\ UNCHANGED <<scanVars, trackerVars, loopVars>>

\* The mapping loop is over: socketpair, and the two threads start.  A
\* failed socketpair is FATAL.
KidLoopback ==
    /\ pc = "map"
    /\ kid_k >= MaxMappings
    /\ \/ /\ pc' = "crashed"
          /\ env' = env \cup {"socketpair"}
          /\ out' = <<ErrorLine("socketpair")>>
          /\ UNCHANGED <<ret, label, buffer, loopVars>>
       \/ /\ pc' = "loopback"
          /\ ret' = FALSE
          /\ label' = "Pipe"
          /\ buffer' = buffer_
          /\ sock' = <<>>
          /\ w_pc' = "loop"
          /\ w_p' = 0
          /\ r_pc' = "loop"
          /\ r_p' = 0
          /\ failures' = 0
          /\ received' = <<>>
          /\ UNCHANGED <<out, env>>
    /\ UNCHANGED <<identity, length, offset, color, buffer_id>>
    /\ UNCHANGED <<kid_, round_, last_painted_by_, buffer_, mapping, kid_k>>
    /\ UNCHANGED <<scanVars, trackerVars, n_reports, n_details, n_summaries>>

\* Both threads have been joined: if (failed) return 1; otherwise the first
\* MapCheck scan, or FinalCheckMe when there is no mapping.  env takes note
\* of a socket that altered what it carried.
KidJoined ==
    /\ pc = "joined"
    /\ IF ret
       THEN /\ KidFails("failed loopback")
            /\ UNCHANGED <<label, buffer_id, buffer>>
       ELSE IF 0 < Len(mapping)
       THEN /\ CallScan("MapCheck", 0, mapping[1])
            /\ UNCHANGED <<ret, out>>
       ELSE /\ CallScan("FinalCheckMe", 0, buffer_)
            /\ UNCHANGED <<ret, out>>
    /\ env' = IF received # buffer_ THEN env \cup {"socket"} ELSE env
    /\ UNCHANGED <<last_painted_by_, buffer_, mapping, kid_k, scans>>
    /\ KidFrame

\* A MapCheck scan has returned: munmap, then the next mapping's scan, or
\* FinalCheckMe after the last.  munmap may fail.
KidMapChecked ==
    /\ pc = "done"
    /\ label = "MapCheck"
    /\ ScanReturned
    /\ IF ~ret
       THEN /\ KidFails("Failed to color kid map right")
            /\ UNCHANGED <<label, buffer_id, buffer, env>>
       ELSE \/ /\ KidFails("munmap")
               /\ env' = env \cup {"munmap"}
               /\ UNCHANGED <<label, buffer_id, buffer>>
            \/ /\ IF buffer_id + 1 < Len(mapping)
                  THEN CallScan("MapCheck", buffer_id + 1,
                                mapping[buffer_id + 2])
                  ELSE CallScan("FinalCheckMe", 0, buffer_)
               /\ UNCHANGED <<ret, out, env>>
    /\ UNCHANGED <<last_painted_by_, buffer_, mapping, kid_k>>
    /\ KidFrame

\* The FinalCheckMe scan has returned: return 0, or 1 if the colour faded.
KidFinished ==
    /\ pc = "done"
    /\ label = "FinalCheckMe"
    /\ ScanReturned
    /\ IF ~ret
       THEN KidFails("Color faded")
       ELSE /\ ret' = 0
            /\ pc' = "returned"
            /\ UNCHANGED out
    /\ UNCHANGED <<label, buffer_id, buffer>>
    /\ UNCHANGED <<last_painted_by_, buffer_, mapping, kid_k, env>>
    /\ KidFrame

KidNext ==
    \/ KidBegin
    \/ ScanBegin \/ ScanStep \/ ScanEnd
    \/ KidCheckedPapa \/ KidPromoted \/ KidPainted
    \/ KidMap \/ KidLoopback
    \/ WriterStep \/ WriterClose \/ ReaderStep \/ ReaderExit \/ Join
    \/ KidJoined \/ KidMapChecked \/ KidFinished

SpecKid == KidInit /\ [][KidNext]_vars


\* The step of Kid in which TrySetAffinity returns false.
AffinityFails == pc = "kid" /\ "affinity" \in env'

\* Kid sets round_ and returns 0: no scan, no repaint, no mapping and no
\* loopback, kid_, last_painted_by_ and the buffer as they were.
KidSkips ==
    /\ round_' \in {call.round : call \in KidCalls}
    /\ ret' = 0
    /\ pc' = "returned"
    /\ UNCHANGED <<kid_, last_painted_by_, buffer_, mapping>>
    /\ UNCHANGED <<scanVars, trackerVars, loopVars, n_reports>>

\* Kid has returned from a run in which nothing but the affinity call went
\* wrong: papa's buffer came intact, every mmap succeeded and gave zeroed
\* memory, the socket carried the bytes unaltered, every munmap succeeded.
KidUndisturbed == pc = "returned" /\ env \subseteq {"affinity"}

---------------------------------------------------------------------------
(* SprayPaint::CowPoke() alone, in the state Kid calls it in: kid_ set,    *)
(* last_painted_by_ still papa's, the buffer as papa painted it or with    *)
(* one byte altered.                                                       *)

\* The buffer_size arguments of the constructor: up to a page more than
\* kMappedBufferSize.
PokeSizes == 0..(kMappedBufferSize + PageSize)

PokeInit ==
    /\ pc = "cowpoke"
    /\ \E call \in KidCalls :
         /\ kid_ = call.kid
         /\ round_ = call.round
    /\ last_painted_by_ = 0
    /\ label = ""
    /\ \E buffer_size \in PokeSizes :
         LET painted == Paint(0, 0, BufferSize(buffer_size))
         IN  \/ buffer_ = painted /\ env = {}
             \/ /\ \E j \in 1..Len(painted) :
                      \E c \in ScanBytes \ {painted[j]} :
                         buffer_ = [painted EXCEPT ![j] = c]
                /\ env = {"buffer"}
    /\ mapping = <<>>
    /\ kid_k = 0
    /\ buffer = <<>>
    /\ buffer_id = 0
    /\ ret = 0
    /\ NoCodec
    /\ NoScan
    /\ NoLoop
    /\ NoTracker

\* CowPoke();
DoCowPoke ==
    /\ pc = "cowpoke"
    /\ buffer_' = CowPoke(buffer_)
    /\ pc' = "poked"
    /\ UNCHANGED <<codecVars, sprayVars, scanVars, trackerVars, logVars>>
    /\ UNCHANGED <<loopVars, mapping, kid_k, env>>

PokeNext == DoCowPoke

SpecPoke == PokeInit /\ [][PokeNext]_vars

\* The buffer is painted for (last_painted_by_, buffer id 0).
PaintedRight == buffer_ = Paint(last_painted_by_, 0, Len(buffer_))

(* C21: CowPoke changes no data: on a buffer correctly painted for         *)
(* (last_painted_by_, 0) every byte is the same after CowPoke as before,   *)
(* and CowPoke writes only at the first byte of each page, always inside   *)
(* the buffer.                                                              *)
CowPokeChangesNoData ==
    /\ [][(pc = "cowpoke" /\ PaintedRight) => buffer_' = buffer_]_vars
    /\ [](\A kk \in Poked(Len(buffer_)) :
             kk % PageSize = 0 /\ kk < Len(buffer_))

\* CowPoke has run on an intact buffer of more than three pages, with kid_
\* other than the buffer's owner.
CowPokeChangesNoDataWitness ==
    /\ pc = "poked"
    /\ env = {}
    /\ kid_ # last_painted_by_
    /\ Len(buffer_) = kMappedBufferSize + 1
    /\ PaintedRight
    /\ Cardinality(Poked(Len(buffer_))) > 3


---------------------------------------------------------------------------
(* Paint followed by ColorMatch on the painted buffer from an offset, with *)
(* the buffer id advanced by the offset (TEST(TwoColor, Paint)).           *)

\* Owners 0, 32 and 898, and 902, which is 3 modulo both primes.
ShiftIdentities == {0, 32, 898, 902}

ShiftInit ==
    /\ pc = "paint"
    /\ identity \in ShiftIdentities
    /\ buffer_id \in 0..MaxBufferId
    /\ length \in 0..MaxPaintLen
    /\ offset \in 0..MaxOffset
    /\ buffer = <<>>
    /\ color = 0
    /\ ret = 0
    /\ NoSpray
    /\ NoScan
    /\ NoLoop
    /\ NoKid
    /\ NoTracker

\* ColorMatch(identity, buffer_id + offset, buffer + offset, n - offset)
DoMatchShifted ==
    /\ pc = "identify"
    /\ offset <= length
    /\ ret' = ColorMatch(identity, buffer_id + offset,
                         Sub(buffer, offset, length - offset), length - offset)
    /\ pc' = "matched"
    /\ UNCHANGED <<identity, buffer_id, length, buffer, offset, color>>
    /\ UNCHANGED <<sprayVars, kidVars, loopVars, scanVars, trackerVars, logVars>>

ShiftNext == DoPaint \/ DoMatchShifted

SpecShift == ShiftInit /\ [][ShiftNext]_vars

\* The byte the pattern of (id, bid) has at position k: the Low colour when
\* (bid + k) mod 7 < 3, the High colour otherwise.
PatternByte(id, bid, k) ==
    IF (bid + k) % 7 < 3 THEN 128 + (id % 29) ELSE 64 + (id % 31)

(* C22: Paint writes at every position k the byte Color(identity,          *)
(* bufferId, k), the Low colour of identity when (bufferId + k) mod 7 < 3  *)
(* and the High colour otherwise; the pattern depends only on identity mod *)
(* 29, identity mod 31 and (bufferId + k) mod 7, has period 7 in k and is  *)
(* shift-consistent, so ColorMatch(identity, bufferId + o, buffer + o,     *)
(* n - o) = n - o on a buffer painted with (identity, bufferId).           *)
PaintPattern ==
    /\ pc \in {"identify", "matched"} =>
         /\ Len(buffer) = length
         /\ \A k \in 0..(length - 1) :
              /\ At(buffer, k) = Color(identity, buffer_id, k)
              /\ At(buffer, k) = PatternByte(identity, buffer_id, k)
              /\ At(buffer, k) =
                   Color((identity % 29) * 31 * 15 + (identity % 31) * 29 * 15,
                         (buffer_id + k) % 7, 0)
              /\ k + 7 < length => At(buffer, k + 7) = At(buffer, k)
              /\ \A o \in 0..k :
                   Color(identity, buffer_id, k) =
                       Color(identity, buffer_id + o, k - o)
    /\ pc = "matched" => ret = length - offset

\* A painted buffer longer than a period has been matched from offset 2.
PaintPatternWitness ==
    /\ pc = "matched"
    /\ identity = 898
    /\ buffer_id = 5
    /\ length > kPeriod + 1
    /\ offset = 2
    /\ ret = length - 2


---------------------------------------------------------------------------
(* The histogram of the directly driven Summarizer.                        *)

\* The sum of the buckets of h over the colours in S.
RECURSIVE SumOver(_, _)
SumOver(h, S) ==
    IF S = {} THEN 0
    ELSE LET b == CHOOSE x \in S : TRUE
         IN  h[b] + SumOver(h, S \ {b})

\* The sum of the 256 buckets.
HistogramSum(t) == SumOver(t.histogram_, {b \in Byte : t.histogram_[b] # 0})

\* The tracker began a range in this step.
BeginsRange == summarizer'.range_count_ # summarizer.range_count_

(* C23: the sum of the 256 histogram buckets always equals the in-range    *)
(* fail count; each Report adds exactly 1 to the bucket of its colour; and *)
(* right after a Report that begins a new range the histogram holds that   *)
(* single report only, so no count of an earlier range is carried into a   *)
(* later range's summary.                                                   *)
HistogramScoping ==
    /\ [](HistogramSum(summarizer) = summarizer.range_fails_)
    /\ [][IsReport =>
            IF BeginsRange
            THEN summarizer'.histogram_ = [ZeroHistogram EXCEPT ![color'] = 1]
            ELSE summarizer'.histogram_ =
                     [summarizer.histogram_ EXCEPT ![color'] = @ + 1]]_vars

\* A second range has just begun with a report of colour 11, after a first
\* range of colour 13 only.
HistogramScopingWitness ==
    /\ pc = "tracker"
    /\ summarizer.range_count_ = 2
    /\ summarizer.range_fails_ = 1
    /\ color = 11
    /\ summarizer.histogram_[11] = 1
    /\ summarizer.histogram_[13] = 0
    /\ n_reports > 1


(* C24: for a buffer of any content, whenever Identify returns a record    *)
(* its identity is in [0, 899), its phase in [0, 7), its length more than  *)
(* 7 and at most the buffer's; the first length bytes equal                *)
(* Color(identity, phase, k), and the length is the buffer's or the byte   *)
(* at index length differs from Color(identity, phase, length).            *)
IdentifySound ==
    (pc = "identified" /\ ret.has_value) =>
        /\ ret.identity \in 0..898
        /\ ret.phase \in 0..6
        /\ 7 < ret.length
        /\ ret.length <= GivenLength
        /\ \A k \in 0..(ret.length - 1) :
              Given(k) = Color(ret.identity, ret.phase, k)
        /\ \/ ret.length = GivenLength
           \/ Given(ret.length) # Color(ret.identity, ret.phase, ret.length)

\* A record returned for a buffer handed over from offset 1 whose pattern
\* starts in its Low part and breaks before the end.
IdentifySoundWitness ==
    /\ pc = "identified"
    /\ ret.has_value
    /\ offset = 1
    /\ IsValidLowColor(Given(0))
    /\ ret.length < GivenLength
    /\ ret.identity = 898


---------------------------------------------------------------------------
(* ColorMatch for one owner on a buffer another owner painted.             *)

\* The painters: owners 0 and 3, 32 and 34, which share the Low and the
\* High colour of 3, and 898.
Painters == {0, 3, 32, 34, 898}

OwnersInit ==
    /\ pc = "paint"
    /\ identity \in Painters
    /\ buffer_id \in 0..MaxBufferId
    /\ length \in (kPeriod - 1)..MaxPaintLen
    /\ buffer = <<>>
    /\ offset = 0
    /\ color = 0
    /\ ret = [identity |-> 0, phase |-> 0, matched |-> 0]
    /\ NoSpray
    /\ NoScan
    /\ NoLoop
    /\ NoKid
    /\ NoTracker

\* ColorMatch(i, phase, buffer, length) for any owner i and any phase.
DoMatchOwner ==
    /\ pc = "identify"
    /\ \E i \in Identities, phase \in 0..MaxPhase :
         ret' = [identity |-> i, phase |-> phase,
                 matched |-> ColorMatch(i, phase, buffer, length)]
    /\ pc' = "matched"
    /\ UNCHANGED <<identity, buffer_id, length, buffer, offset, color>>
    /\ UNCHANGED <<sprayVars, kidVars, loopVars, scanVars, trackerVars, logVars>>

OwnersNext == DoPaint \/ DoMatchOwner

SpecOwners == OwnersInit /\ [][OwnersNext]_vars

(* C25: for distinct identities i and j in [0, 899) and any buffer ids or  *)
(* phases, ColorMatch of i on a buffer of length >= 7 painted by j returns *)
(* less than 7, so a scan expecting i never passes on such a buffer.       *)
OwnersDistinguished ==
    (/\ pc = "matched"
     /\ ret.identity # identity
     /\ length >= 7) =>
        /\ ret.matched < 7
        /\ ret.matched # length

\* Owner 34, which shares its High colour with 3, matched at the painter's
\* phase on a buffer owner 3 painted: the match ends where the Low part
\* begins.
OwnersDistinguishedWitness ==
    /\ pc = "matched"
    /\ identity = 3
    /\ ret.identity = 34
    /\ ret.phase = buffer_id
    /\ buffer_id = 3
    /\ length >= 7
    /\ ret.matched = 4


---------------------------------------------------------------------------
\* The step is a call of Report, whatever its outcome.
ReportCalled == n_reports' = n_reports + 1

\* The step is a call of Finish.
FinishCalled == finish_calls' = finish_calls + 1

(* C26: once total_fails has reached 600, Report emits no range summary    *)
(* and changes neither range_count nor range_start, also for non-adjacent  *)
(* positions: it sets range_end to the position and adds to the in-range   *)
(* fail count and the histogram.  Every summary Report emits is therefore  *)
(* unflagged, and the summary Finish emits carries 'Squelched' if and only *)
(* if total_fails >= 600.                                                   *)
AfterSquelch ==
    /\ [][(ReportCalled /\ summarizer'.total_fails_ >= 600) =>
            /\ pc' = "tracker"
            /\ SummariesIn(out') = {}
            /\ summarizer'.range_count_ = summarizer.range_count_
            /\ summarizer'.range_start_ = summarizer.range_start_
            /\ summarizer'.range_end_ = Last(reported')
            /\ summarizer'.range_fails_ = summarizer.range_fails_ + 1
            /\ summarizer'.histogram_ =
                   [summarizer.histogram_ EXCEPT ![color'] = @ + 1]]_vars
    /\ [][ReportCalled =>
            \A s \in SummariesIn(out') : s.squelched = ""]_vars
    /\ [][FinishCalled =>
            \A s \in SummariesIn(out') :
               (s.squelched = "Squelched") <=>
                   (summarizer.total_fails_ >= 600)]_vars

\* Finish has logged a flagged summary after squelched reports at
\* non-adjacent positions left the range wider than its fail count.
AfterSquelchWitness ==
    /\ pc = "finished"
    /\ n_reports > 600
    /\ summarizer.range_count_ > 1
    /\ RangeLength(summarizer) > summarizer.range_fails_
    /\ \E s \in SummariesIn(out) :
          s.squelched = "Squelched" /\ s.range = summarizer.range_count_


---------------------------------------------------------------------------
(* ColorIsRight called again on the same object: the constructor scans      *)
(* papa's buffer three times, Kid scans it twice as CheckPapa, and a scan   *)
(* of another buffer may come between two scans of the same one.            *)

\* How many calls of ColorIsRight one behaviour makes.
MaxScans == 3

\* What a buffer scanned more than once may hold: papa's colours and a
\* garbage byte.
RescanBytes == {LowColor(0), HighColor(0), 11}

RescanBuffers == UNION {[1..n -> RescanBytes] : n \in 0..MaxScanLen}

RescanInit ==
    /\ pc = "call"
    /\ \E call \in ScanCalls :
         /\ kid_ = call.kid
         /\ last_painted_by_ = call.last
         /\ label = call.ident
         /\ buffer_id = call.buffer_id
    /\ round_ = 0
    /\ buffer \in RescanBuffers
    /\ ret = TRUE
    /\ NoCodec
    /\ NoScan
    /\ NoLoop
    /\ NoKid
    /\ NoTracker

\* The buffers the next call may be given: the same bytes again, bytes
\* scanned before, the same bytes with the first one overwritten, or the
\* buffer painted right.
NextBuffers ==
    {buffer, Paint(last_painted_by_, buffer_id, Len(buffer))}
    \cup {scans[i].buffer : i \in 1..Len(scans)}
    \cup {[buffer EXCEPT ![1] = 11] : j \in {1} \cap DOMAIN buffer}

\* The caller takes the verdict and calls ColorIsRight once more.
Rescan ==
    /\ pc = "done"
    /\ Len(scans) + 1 < MaxScans
    /\ scans' = Append(scans, Scanned)
    /\ buffer' \in NextBuffers
    /\ pc' = "call"
    /\ UNCHANGED <<identity, buffer_id, length, offset, color, ret>>
    /\ UNCHANGED <<sprayVars, kidVars, loopVars, trackerVars, logVars>>
    /\ UNCHANGED <<scan_k, ok, reported, finish_calls>>

RescanNext == ScanBegin \/ ScanStep \/ ScanEnd \/ Rescan

SpecRescan == RescanInit /\ [][RescanNext]_vars

\* The calls finished so far, the one that has just returned included.
Returned == IF pc = "done" THEN Append(scans, Scanned) ELSE scans

\* The members and the buffer a scan may not write.
ScanInputs == <<buffer, buffer_id, label, kid_, round_, last_painted_by_>>

\* A tracker as the Summarizer constructor leaves it.
FreshTracker ==
    /\ ~summarizer.active_
    /\ summarizer.total_fails_ = 0
    /\ summarizer.range_fails_ = 0
    /\ summarizer.range_count_ = 0
    /\ summarizer.histogram_ = ZeroHistogram
    /\ summarizer.buffer_ = buffer
    /\ n_reports = 0

\* C27: a scan writes neither the scanned buffer nor kid_, round_ or
\* last_painted_by_ and starts from a tracker of its own; so two calls with
\* the same arguments on the same bytes, whatever was scanned between them,
\* return the same verdict and report and log the same.
ScanReadOnly ==
    /\ [][(pc \in {"call", "loop"}) => UNCHANGED ScanInputs]_vars
    /\ [](pc = "loop" /\ scan_k = 0 => FreshTracker)
    /\ [](\A i, j \in 1..Len(Returned) :
            (/\ Returned[i].buffer = Returned[j].buffer
             /\ Returned[i].buffer_id = Returned[j].buffer_id
             /\ Returned[i].ident = Returned[j].ident)
            => Returned[i] = Returned[j])

\* A failing scan repeated after a scan of other bytes, with the same result.
ScanReadOnlyWitness ==
    /\ pc = "done"
    /\ Len(scans) = 2
    /\ ~ret
    /\ scans[1].buffer = buffer
    /\ scans[2].buffer # buffer
    /\ scans[1] = Scanned
    /\ Len(reported) > 1


---------------------------------------------------------------------------
(* Kid with the fault it looks for: a byte of the memory that is about to   *)
(* be scanned changes by itself.                                            *)

\* A byte that is the colour of no owner at any position.
FadedByte == 11

\* One byte of the memory handed to ColorIsRight changes between the call
\* and the loop: the primary buffer, or the mapping being checked.
Fade ==
    /\ pc = "call"
    /\ "fade" \notin env
    /\ \E j \in DOMAIN buffer :
         /\ buffer' = [buffer EXCEPT ![j] = FadedByte]
         /\ IF label = "MapCheck"
            THEN /\ mapping' = [mapping EXCEPT ![buffer_id + 1] = buffer']
                 /\ UNCHANGED buffer_
            ELSE /\ buffer_' = buffer'
                 /\ UNCHANGED mapping
    /\ env' = env \cup {"fade"}
    /\ UNCHANGED <<pc, identity, buffer_id, length, offset, color, ret>>
    /\ UNCHANGED <<sprayVars, scanVars, trackerVars, logVars, loopVars, kid_k>>

OrderNext == KidNext \/ Fade

SpecOrder == KidInit /\ [][OrderNext]_vars

\* The calls of ColorIsRight Kid makes, in the order of its text.
KidScanOrder ==
    <<"CheckPapa", "CheckPapa", "PagePromote", "FirstCheckMe">>
    \o [i \in 1..MaxMappings |-> "MapCheck"] \o <<"FinalCheckMe">>

\* The scans made before last_painted_by_ = kid_.
ScansOfPapa == 3

\* The scans whose verdict Kid has taken follow the order, each MapCheck on
\* the mapping of its turn; all but the last passed, and one that failed is
\* the last, with 1 returned.
ScansInOrder ==
    /\ Len(scans) <= Len(KidScanOrder)
    /\ \A i \in 1..Len(scans) :
         /\ scans[i].ident = KidScanOrder[i]
         /\ scans[i].buffer_id =
                IF scans[i].ident = "MapCheck" THEN i - ScansOfPapa - 2 ELSE 0
         /\ scans[i].kid_ = kid_
         /\ scans[i].last_painted_by_ =
                IF i <= ScansOfPapa THEN 0 ELSE kid_
         /\ ~scans[i].ret => (i = Len(scans) /\ pc = "returned" /\ ret = 1)
    /\ pc \in {"call", "loop", "done"} => label = KidScanOrder[Len(scans) + 1]

\* The mapped buffers come after FirstCheckMe, the loopback after the last
\* of them, the first MapCheck after the loopback.
StepsBetweenScans ==
    /\ pc = "map" => Len(scans) = ScansOfPapa + 1
    /\ Len(mapping) > 0 => Len(scans) > ScansOfPapa
    /\ pc \in {"loopback", "joined"} =>
          (Len(scans) = ScansOfPapa + 1 /\ Len(mapping) = MaxMappings)
    /\ Len(scans) > ScansOfPapa + 1 =>
          (w_pc = "done" /\ r_pc = "done" /\ Len(mapping) = MaxMappings)
    /\ last_painted_by_ = IF Len(scans) < ScansOfPapa THEN 0
                          ELSE IF Len(scans) > ScansOfPapa THEN kid_
                          ELSE last_painted_by_

\* Kid has returned 0 from its body: every scan was made and passed, every
\* buffer was mapped and the loopback delivered the buffer.
AllStepsPassed ==
    /\ Len(scans) = Len(KidScanOrder)
    /\ \A i \in 1..Len(scans) : scans[i].ret
    /\ Len(mapping) = MaxMappings
    /\ received = buffer_
    /\ last_painted_by_ = kid_

\* CowPoke comes between the second CheckPapa and PagePromote.
PokedBeforePromote ==
    (label' = "PagePromote" /\ label # "PagePromote") =>
        (Len(scans') = ScansOfPapa - 1 /\ buffer_' = CowPoke(buffer_))

\* Ownership is taken and the buffer repainted in one step, after three
\* scans against the previous owner have passed.
RepaintedAfterThree ==
    (last_painted_by_' # last_painted_by_ \/
     (buffer_' # buffer_ /\ pc = "done" /\ label = "PagePromote")) =>
        /\ Len(scans') = ScansOfPapa
        /\ \A i \in 1..ScansOfPapa :
             scans'[i].ret /\ scans'[i].last_painted_by_ = last_painted_by_
        /\ last_painted_by_' = kid_
        /\ buffer_' = Paint(kid_, 0, Len(buffer_))
        /\ label' = "FirstCheckMe"

\* A step that fails returns 1 at once and does nothing else.
FailureReturns ==
    /\ (pc = "done" /\ ~ret) => (pc' = "returned" /\ ret' = 1)
    /\ (pc = "joined" /\ ret) => (pc' = "returned" /\ ret' = 1)
    /\ (pc' = "returned" /\ pc # "kid") =>
          /\ (ret' = 0 => (pc = "done" /\ label = "FinalCheckMe" /\ ret))
          /\ UNCHANGED <<buffer_, last_painted_by_, mapping, loopVars, kid_>>

\* C28: with the affinity set Kid makes its steps in the order CheckPapa
\* twice, CowPoke, PagePromote, ownership and repaint, FirstCheckMe, the
\* mapped buffers, the loopback, MapCheck of each mapping, FinalCheckMe; it
\* returns 1 at the first step that fails and makes no later step, and
\* returns 0 only if every step passed; the repaint follows three passed
\* scans against the previous owner, the scans before it expect the previous
\* owner and those after it the kid.
KidOrder ==
    /\ [](ScansInOrder /\ StepsBetweenScans)
    /\ []((pc = "returned" /\ ret = 0 /\ "affinity" \notin env)
            => AllStepsPassed)
    /\ [][PokedBeforePromote /\ RepaintedAfterThree /\ FailureReturns]_vars
    /\ [][pc # "returned"]_vars

\* Kid returned 1 from a MapCheck of the second mapping that found a faded
\* byte, after six scans that passed, and never made the FinalCheckMe scan.
KidOrderWitness ==
    /\ pc = "returned"
    /\ ret = 1
    /\ env = {"fade"}
    /\ Len(scans) = ScansOfPapa + 1 + MaxMappings
    /\ ~scans[Len(scans)].ret
    /\ scans[Len(scans)].buffer_id = MaxMappings - 1
    /\ \A i \in 1..(Len(scans) - 1) : scans[i].ret
    /\ last_painted_by_ = kid_
    /\ buffer_ = Paint(kid_, 0, Len(buffer_))

===========================================================================
